---- MODULE Spec2Model ----
(***************************************************************************)
(* A state-machine model of the grid trading bot: the RiskManager          *)
(* (modules/risk_manager.py), the GridLogic engine (modules/grid_logic.py),*)
(* the gateway's formatting helpers (modules/bybit_client.py) and the      *)
(* orchestrator's coroutines (main.py, ui_server.py).                      *)
(*                                                                         *)
(* Coroutines run on one event loop: a coroutine only yields at an await.  *)
(* Every action below is "resume one coroutine from the await it is        *)
(* suspended at, with the answer the awaited call gives, and run it up to  *)
(* its next await".  pc[t] names the await task t is suspended at.         *)
(*                                                                         *)
(* Money, prices and quantities are exact rationals <<num, den>>; times    *)
(* are minutes since an epoch.                                             *)
(***************************************************************************)
EXTENDS Integers, Sequences, FiniteSets, TLC

\* ------------------------------------------------------------------------
\* Exact rational arithmetic standing for the code's float arithmetic
\* ------------------------------------------------------------------------
RECURSIVE Gcd(_, _)
Gcd(a, b) == IF b = 0 THEN a ELSE Gcd(b, a % b)

Abs(x) == IF x < 0 THEN -x ELSE x

\* the rational n/d (d # 0) in lowest terms with a positive denominator
Rat(n, d) ==
    LET g == Gcd(Abs(n), Abs(d))
        s == IF d < 0 THEN -1 ELSE 1
    IN  <<(s * n) \div g, (s * d) \div g>>

RInt(n) == <<n, 1>>

RAdd(a, b) ==
    IF a[1] = 0 THEN b
    ELSE IF b[1] = 0 THEN a
    ELSE Rat(a[1] * b[2] + b[1] * a[2], a[2] * b[2])

RSub(a, b) ==
    IF b[1] = 0 THEN a
    ELSE IF a = b THEN RInt(0)
    ELSE Rat(a[1] * b[2] - b[1] * a[2], a[2] * b[2])

RMul(a, b) ==
    IF a[1] = 0 \/ b[1] = 0 THEN RInt(0)
    ELSE Rat(a[1] * b[1], a[2] * b[2])

\* a / b for b # 0
RDiv(a, b) ==
    IF b[1] # 0 /\ a[1] = 0 THEN RInt(0)
    ELSE Rat(a[1] * b[2], a[2] * b[1])

RLt(a, b) == a[1] * b[2] < b[1] * a[2]

RLe(a, b) == a[1] * b[2] <= b[1] * a[2]

RMax(a, b) == IF RLt(a, b) THEN b ELSE a

\* Python's int(x): truncation toward zero
Trunc(a) == IF a[1] >= 0 THEN a[1] \div a[2] ELSE -((-a[1]) \div a[2])

\* ------------------------------------------------------------------------
\* Time
\* ------------------------------------------------------------------------
MinutesPerDay == 1440

\* datetime.date() of a time in minutes
Date(t) == t \div MinutesPerDay

\* the clock advances in steps of half a day, at most MaxTicks times
TickMinutes == MinutesPerDay \div 2

MaxTicks == 2

\* ------------------------------------------------------------------------
\* Configuration of the risk manager (config['risk'])
\* ------------------------------------------------------------------------
\* kill_switch_drawdown_pct = 0.05
KillSwitchPctNum == 5
KillSwitchPctDen == 100
kill_switch_drawdown_pct == Rat(KillSwitchPctNum, KillSwitchPctDen)

\* max_exposure_pct = 0.5
MaxExposurePctNum == 50
MaxExposurePctDen == 100
max_exposure_pct == Rat(MaxExposurePctNum, MaxExposurePctDen)

\* ------------------------------------------------------------------------
\* What the exchange gateway can answer
\* ------------------------------------------------------------------------
\* total equity values the exchange reports (USDT): 950 is a drawdown of
\* exactly 5% from 1000, 960 one of 4%
EquityValues == {950, 960, 1000}

\* outcome kinds of a gateway call: a result, a result carrying an error
\* field (retries exhausted on an API error), or an exception raised out of
\* _request (timeout or transport error on the last attempt)
GatewayKinds == {"ok", "error", "raise"}

\* position values (size * markPrice, summed) the exchange reports
PositionValues == {0, 600}

\* triggers of the kill-switch the environment lets happen: deactivation is
\* offered only while fewer than MaxTriggers transitions have happened
MaxTriggers == 2

VARIABLES
    now,                     \* datetime.utcnow(), minutes
    ticks,                   \* clock steps taken
    \* RiskManager
    kill_switch_active,
    kill_switch_reason,
    daily_max_equity,
    last_equity_check,
    current_exposure_usdt,
    total_equity_usdt,
    \* observations of the RiskManager's calls to its collaborators
    ks_triggers,             \* Normal -> Triggered transitions so far
    ks_cancel_calls,         \* cancel_all_orders calls made by trigger_kill_switch
    ks_events,               \* kill_switch CRITICAL events persisted
    exposure_result,         \* what the most recent check_max_exposure returned
    last_op,                 \* the RiskManager operation a step has just run, if any
    \* GridLogic: instrument info, configuration read, grid state
    tick_size,
    qty_step,
    min_order_qty,
    min_notional,
    initial_capital,         \* config['trading']['initial_capital']
    center_price,
    buy_levels,
    sell_levels,
    active_orders,           \* order id -> level
    last_recenter_time,
    price_history,           \* sequence of [price, timestamp]
    \* GridTradingBot
    running,
    active_profile,
    bot_task,                \* ui_server's bot_task: the latest start_trading task
    \* the exchange: resting orders [id, side, price, qty], the id of the
    \* next order it accepts, and the place_order calls made so far
    ex_orders,
    ex_next_id,
    place_calls,
    price_reads,             \* get_current_price calls made so far
    \* coroutines
    pc,                      \* task -> the await it is suspended at
    ret,                     \* task -> where its current call returns to
    loc                      \* task -> the local variables of its frames

riskVars == <<kill_switch_active, kill_switch_reason, daily_max_equity,
              last_equity_check, current_exposure_usdt, total_equity_usdt>>

obsVars == <<ks_triggers, ks_cancel_calls, ks_events, exposure_result>>

instrVars == <<tick_size, qty_step, min_order_qty, min_notional, initial_capital>>

gridVars == <<center_price, buy_levels, sell_levels, active_orders,
              last_recenter_time, price_history>>

botVars == <<running, active_profile, bot_task>>

exVars == <<ex_orders, ex_next_id, place_calls>>

vars == <<now, ticks, riskVars, obsVars, last_op, instrVars, gridVars, botVars,
          exVars, price_reads, pc, ret, loc>>

\* two concurrent /api/risk/metrics (or /api/status) requests
UiTasks == {"ui1", "ui2"}

\* the monitoring loops start_trading gathers: _monitor_grid, _monitor_risk
Loops == {"gm", "rm"}

\* with the two loops that write only to the store: "fm" is _monitor_orders,
\* "ss" is _take_snapshots; they run in SpecLoops
AllLoops == Loops \cup {"fm", "ss"}

\* "st": the task of POST /api/start running start_trading;
\* "cp": a POST /api/profile/change request; "sp": a POST /api/stop request
\* two calls of BybitClient._request in flight, of whichever coroutines
ReqTasks == {"rq1", "rq2"}

\* a second POST /api/start handled before the first one's start_trading set
\* `running`: "st2" is its start_trading task, "gm2", "rm2", "fm2" and "ss2"
\* are the _monitor_grid, _monitor_risk, _monitor_orders and _take_snapshots
\* coroutines its gather creates
SecondLoops == {"gm2", "rm2", "fm2", "ss2"}

SecondStart == {"st2"} \cup SecondLoops

\* "sd": the shutdown of the process (GridTradingBot.shutdown)
Tasks == UiTasks \cup AllLoops \cup {"st", "cp", "sp", "sd"} \cup ReqTasks
             \cup SecondStart

\* the coroutines the gather of start_trading task t creates and awaits
LoopsOf(t) == IF t = "st2" THEN SecondLoops ELSE AllLoops

\* last_op after a step whose inputs no property needs to recall
OtherStep == [op |-> "step", kind |-> "-"]

\* the locals of a task that is in no call
NoLocals == [profile |-> "-", reason |-> "-", price |-> <<0, 1>>, side |-> "-",
             todo |-> <<>>, method |-> "-", attempt |-> 0]

\* RiskManager.__init__
RiskInit ==
    /\ now = 0
    /\ ticks = 0
    /\ kill_switch_active = FALSE
    /\ kill_switch_reason = <<>>
    /\ daily_max_equity = 0
    /\ last_equity_check = 0
    /\ current_exposure_usdt = 0
    /\ total_equity_usdt = 0
    /\ ks_triggers = 0
    /\ ks_cancel_calls = 0
    /\ ks_events = 0
    /\ exposure_result = "none"
    /\ last_op = OtherStep

\* ------------------------------------------------------------------------
\* Configuration of the grid engine (config['grid'], config['recenter'])
\* ------------------------------------------------------------------------
\* config['grid']['profiles']: profile name -> spacing and level count
Profiles ==
    [Conservative |-> [grid_spacing |-> Rat(2, 100), target_levels |-> 2],
     Normal       |-> [grid_spacing |-> Rat(1, 100), target_levels |-> 3],
     Aggressive   |-> [grid_spacing |-> Rat(5, 1000), target_levels |-> 3]]

ProfileNames == DOMAIN Profiles

\* config['grid']['profiles'].get(profile, config['grid']['profiles']['Normal'])
ProfileConfig(profile) ==
    IF profile \in DOMAIN Profiles THEN Profiles[profile] ELSE Profiles["Normal"]

\* config['grid']['grid_spacing_max']
grid_spacing_max == Rat(3, 100)

\* calculate_atr's default period
AtrPeriod == 14

\* config['recenter']
price_deviation_pct == Rat(2, 100)
time_based_hours == 48
one_side_hours == 24
pump_dump_pct == Rat(5, 100)

\* history samples the one-sided and pump/dump conditions need
MinHistorySamples == 60

\* GridLogic.max_history_points
max_history_points == 720

MinutesPerHour == 60

\* ------------------------------------------------------------------------
\* The state after construction and initialize()
\* ------------------------------------------------------------------------
\* the center_price of the latest grid in the store (get_latest_grid): none
\* on the first boot, or the center of the grid an earlier run placed
StoredCenters == {<<0, 1>>, <<100, 1>>}

\* GridLogic.__init__ and initialize(): no levels, no orders, no history; the
\* center of the last stored grid, if any
GridInit ==
    /\ center_price \in StoredCenters
    /\ buy_levels = <<>>
    /\ sell_levels = <<>>
    /\ active_orders = <<>>
    /\ last_recenter_time = 0
    /\ price_history = <<>>

\* GridTradingBot.__init__ and initialize(): the profile of the stored active
\* configuration (the configured default on the first boot), an empty order
\* book, no coroutine started
BotInit ==
    /\ running = FALSE
    /\ bot_task = "none"
    /\ active_profile \in ProfileNames
    /\ ex_orders = {}
    /\ ex_next_id = 1
    /\ place_calls = 0
    /\ price_reads = 0
    /\ pc = [t \in Tasks |-> IF t \in AllLoops \cup SecondLoops THEN "off" ELSE "idle"]
    /\ ret = [t \in Tasks |-> "none"]
    /\ loc = [t \in Tasks |-> NoLocals]

\* the instrument _load_instrument_info found and the configured capital
\* (enough for one level per side)
BotInstrument ==
    [tick_size |-> <<1, 100>>, qty_step |-> <<1, 10>>,
     min_order_qty |-> <<1, 10>>, min_notional |-> <<5, 1>>]

BotCapital == <<11, 1>>

InstrumentInit ==
    /\ tick_size = BotInstrument.tick_size
    /\ qty_step = BotInstrument.qty_step
    /\ min_order_qty = BotInstrument.min_order_qty
    /\ min_notional = BotInstrument.min_notional
    /\ initial_capital = BotCapital

\* the price get_current_price reads while the bot runs
BotPrices == {<<100, 1>>}

\* the prices the monitor reads: none, below the band, inside, above the
\* band of a highest sell of 101 (103.02) but not of 102 (104.04), above both
RecenterPrices == {<<0, 1>>, <<96, 1>>, <<100, 1>>, <<104, 1>>, <<105, 1>>}

\* the prices read: none (the fetch failed), or around the center
HistoryPrices == {<<0, 1>>, <<99, 1>>, <<100, 1>>, <<201, 2>>}

\* the state after construction and initialize()
Init == RiskInit /\ GridInit /\ BotInit /\ InstrumentInit

\* the first boot: initialize() found an empty store
FirstBoot == center_price = <<0, 1>> /\ active_profile = "Normal"

\* the state after construction and initialize() on the first boot
InitBoot == Init /\ FirstBoot

\* ------------------------------------------------------------------------
\* Python floats (IEEE-754 doubles) where their rounding decides a result.
\* A double is a 53-bit mantissa m and an exponent e, value m * 2^e; naturals
\* beyond 31 bits are sequences of limbs, least significant limb first
\* ------------------------------------------------------------------------
LimbBase == 1024

LimbBits == 10

Pow2(n) == 2 ^ n

\* the sequence f with every element evaluated, once
Tuple(f) == f \o <<>>

\* limb i of x, 0 beyond its length
Limb(x, i) == IF i <= Len(x) THEN x[i] ELSE 0

\* without leading zero limbs
BigNorm(x) ==
    IF x = <<>> \/ x[Len(x)] # 0 THEN x
    ELSE IF \A i \in 1..Len(x) : x[i] = 0 THEN <<>>
    ELSE SubSeq(x, 1, CHOOSE i \in 1..Len(x) :
                          x[i] # 0 /\ \A j \in (i + 1)..Len(x) : x[j] = 0)

\* the limbs of a natural below 2^31
BigOf(n) ==
    BigNorm(<<n % LimbBase, (n \div LimbBase) % LimbBase,
              (n \div (LimbBase * LimbBase)) % LimbBase,
              n \div (LimbBase * LimbBase * LimbBase)>>)

RECURSIVE CarryFrom(_, _, _)
\* the limbs, from limb i on, of the number whose limb j has the value
\* cols[j] (any integer of magnitude below 2^30) with the carry c into limb i
CarryFrom(cols, i, c) ==
    IF i > Len(cols)
    THEN IF c = 0 THEN <<>> ELSE <<c % LimbBase>> \o CarryFrom(cols, i, c \div LimbBase)
    ELSE <<(cols[i] + c) % LimbBase>>
             \o CarryFrom(cols, i + 1, (cols[i] + c) \div LimbBase)

\* x + y
BigAdd(x, y) ==
    CarryFrom(Tuple([k \in 1..(IF Len(x) > Len(y) THEN Len(x) ELSE Len(y)) |->
                       Limb(x, k) + Limb(y, k)]), 1, 0)

\* x - y for x >= y
BigSub(x, y) ==
    IF y = <<>> THEN x
    ELSE BigNorm(CarryFrom(Tuple([k \in 1..Len(x) |-> x[k] - Limb(y, k)]), 1, 0))

\* x - 1 for x > 0
BigDec(x) == BigSub(x, <<1>>)

\* x * c for 0 <= c < LimbBase
BigMulSmall(x, c) ==
    IF x = <<>> \/ c = 0 THEN <<>>
    ELSE CarryFrom(Tuple([i \in 1..Len(x) |-> x[i] * c]), 1, 0)

\* x * 2^t
BigShl(x, t) ==
    IF x = <<>> THEN <<>>
    ELSE [i \in 1..(t \div LimbBits) |-> 0] \o BigMulSmall(x, Pow2(t % LimbBits))

RECURSIVE ColumnSum(_, _, _, _)
\* the sum of x[j] * y[k + 1 - j] for j from i on: the products that fall
\* into limb k of x * y
ColumnSum(x, y, k, i) ==
    IF i > k \/ i > Len(x) THEN 0
    ELSE x[i] * Limb(y, k + 1 - i) + ColumnSum(x, y, k, i + 1)

\* x * y
BigMul(x, y) ==
    IF x = <<>> \/ y = <<>> THEN <<>>
    ELSE CarryFrom(Tuple([k \in 1..(Len(x) + Len(y) - 1) |-> ColumnSum(x, y, k, 1)]), 1, 0)

\* x < y, both without leading zero limbs
BigLess(x, y) ==
    IF Len(x) # Len(y) THEN Len(x) < Len(y)
    ELSE \E i \in 1..Len(x) : x[i] < y[i] /\ \A j \in (i + 1)..Len(x) : x[j] = y[j]

RECURSIVE BigDivSmallFrom(_, _, _, _)
\* long division by d < 2^21 from limb i down: the quotient limbs, most
\* significant first, then the remainder
BigDivSmallFrom(x, d, i, rem) ==
    IF i = 0 THEN <<rem>>
    ELSE <<(rem * LimbBase + x[i]) \div d>>
             \o BigDivSmallFrom(x, d, i - 1, (rem * LimbBase + x[i]) % d)

\* quotient and remainder out of the n quotient limbs and the remainder r
QuotRem(r, n) ==
    [quot |-> BigNorm(Tuple([k \in 1..n |-> r[n + 1 - k]])), rem |-> r[n + 1]]

\* x div d and x mod d
BigDivSmall(x, d) ==
    IF x = <<>> THEN [quot |-> <<>>, rem |-> 0]
    ELSE QuotRem(BigDivSmallFrom(x, d, Len(x), 0), Len(x))

\* floor(log2 n) for n >= 1
FloorLog2(n) == CHOOSE b \in 0..30 : n \div Pow2(b) = 1

\* floor(log2(p / q)) for p, q > 0: the greatest j with q * 2^j <= p, or
\* minus the least j with p * 2^j >= q
RatFloorLog2(p, q) ==
    IF p >= q THEN FloorLog2(p \div q)
    ELSE LET c == (q + p - 1) \div p
         IN  0 - (CHOOSE j \in 0..30 : Pow2(j) >= c /\ (j = 0 \/ Pow2(j - 1) < c))

\* the number of bits of x
BigBitLen(x) ==
    IF x = <<>> THEN 0 ELSE LimbBits * (Len(x) - 1) + FloorLog2(x[Len(x)]) + 1

\* x div 2^t: the limbs from t div LimbBits on, each joined with the low
\* bits of the next
BigShr(x, t) ==
    LET drop == t \div LimbBits
        low == Pow2(t % LimbBits)
    IN  BigNorm(Tuple([k \in 1..(Len(x) - drop) |->
                         (x[k + drop] \div low)
                             + (Limb(x, k + drop + 1) % low) * (LimbBase \div low)]))

\* bit t of x (bit 0 is the lowest)
BigBit(x, t) == (Limb(x, (t \div LimbBits) + 1) \div Pow2(t % LimbBits)) % 2

\* x is a multiple of 2^t
BigLowZero(x, t) ==
    /\ \A i \in 1..(t \div LimbBits) : Limb(x, i) = 0
    /\ Limb(x, (t \div LimbBits) + 1) % Pow2(t % LimbBits) = 0

\* the double 0.0
Zero == [m |-> <<>>, e |-> 0]

\* bits of a double's mantissa
MantissaBits == 53

\* the double m * 2^e for a mantissa m that rounding may have carried to 2^53
Carried(m, e) ==
    IF BigBitLen(m) > MantissaBits
    THEN [m |-> BigShl(<<1>>, MantissaBits - 1), e |-> e + 1]
    ELSE [m |-> m, e |-> e]

\* q = n div 2^shift moved to the nearest (ties to even) by the bits of n
\* below 2^shift, for shift >= 1
NearestShifted(n, shift, q) ==
    IF BigBit(n, shift - 1) = 1 /\ (q[1] % 2 = 1 \/ ~ BigLowZero(n, shift - 1))
    THEN BigAdd(q, <<1>>)
    ELSE q

\* the double nearest to n * 2^e for an n > 0 of 53 + shift bits
RoundBits(n, e, shift) ==
    IF shift <= 0 THEN [m |-> BigShl(n, -shift), e |-> e + shift]
    ELSE Carried(NearestShifted(n, shift, BigShr(n, shift)), e + shift)

\* the double nearest to n * 2^e for n >= 0 (ties to even)
RoundToDouble(n, e) ==
    IF n = <<>> THEN Zero ELSE RoundBits(n, e, BigBitLen(n) - MantissaBits)

\* the quotient d.quot of a division by q moved to the nearest (ties to
\* even) by its remainder d.rem
NearestQuotient(d, q) ==
    IF 2 * d.rem > q \/ (2 * d.rem = q /\ d.quot[1] % 2 = 1)
    THEN BigAdd(d.quot, <<1>>)
    ELSE d.quot

\* the double nearest to p / q, given lg = floor(log2(p / q))
DoubleNear(p, q, lg) ==
    Carried(NearestQuotient(BigDivSmall(BigShl(BigOf(p), MantissaBits - 1 - lg), q), q),
            lg - (MantissaBits - 1))

\* float(p/q) for a decimal p/q > 0: the double nearest to it (ties to
\* even), as mantissa m in 2^52..2^53-1 and exponent e, value m * 2^e
DoubleOf(p, q) == DoubleNear(p, q, RatFloorLog2(p, q))

\* x * y in doubles
FMul(x, y) ==
    IF x.m = <<>> \/ y.m = <<>> THEN Zero
    ELSE RoundToDouble(BigMul(x.m, y.m), x.e + y.e)

\* x + y in doubles
FAdd(x, y) ==
    IF x.m = <<>> THEN y
    ELSE IF y.m = <<>> THEN x
    ELSE
    LET low == IF x.e < y.e THEN x.e ELSE y.e
    IN  RoundToDouble(BigAdd(BigShl(x.m, x.e - low), BigShl(y.m, y.e - low)), low)

\* x - y in doubles, for x >= y
FSub(x, y) ==
    IF y.m = <<>> THEN x
    ELSE
    LET low == IF x.e < y.e THEN x.e ELSE y.e
    IN  RoundToDouble(BigSub(BigShl(x.m, x.e - low), BigShl(y.m, y.e - low)), low)

\* bits of a divisor below its leading DivisorBits bits: a double's mantissa
\* has 53 bits, its leading two limbs of bits estimate a quotient
DivisorBits == 2 * LimbBits
LowBits == MantissaBits - DivisorBits

RECURSIVE BigDivFrom(_, _, _, _, _)
RECURSIVE BigDivTake(_, _, _, _, _, _)
\* one round: the underestimate `part` of r div y is taken out of r
BigDivTake(r, y, d, q, rounds, part) ==
    BigDivFrom(BigSub(r, BigMul(part, y)), y, d, BigAdd(q, part), rounds - 1)

\* q + r div y and r mod y for a 53-bit y, d being the leading bits of y
\* plus one: each round takes the underestimate (r div 2^33) div d out of
\* r, which divides r / y by about 2^19; after the rounds, or once the
\* underestimate is 0, r < 2 * y
BigDivFrom(r, y, d, q, rounds) ==
    IF rounds = 0 \/ BigLess(BigShr(r, LowBits), BigOf(d))
    THEN IF BigLess(r, y) THEN [quot |-> q, rem |-> r]
         ELSE [quot |-> BigAdd(q, <<1>>), rem |-> BigSub(r, y)]
    ELSE BigDivTake(r, y, d, q, rounds, BigDivSmall(BigShr(r, LowBits), d).quot)

\* rounds that bring a quotient below 2^57 down to at most 1, each taking
\* about DivisorBits bits of it
DivRounds == MantissaBits \div DivisorBits + 2

\* the number of the two limbs s
Leading(s) == s[1] + LimbBase * s[2]

\* x div y and x mod y for x below 2^109 and a 53-bit y
BigDiv(x, y) == BigDivFrom(x, y, Leading(BigShr(y, LowBits)) + 1, <<>>, DivRounds)

\* the double nearest to (d.quot + fraction) * 2^(e + 1): the remainder
\* d.rem of the division adds a sticky bit below the quotient
RoundQuotient(d, e) ==
    RoundToDouble(BigAdd(BigShl(d.quot, 1), IF d.rem = <<>> THEN <<>> ELSE <<1>>), e)

\* x / y in doubles, for y > 0: 56 quotient bits and a sticky bit, rounded
FDiv(x, y) ==
    IF x.m = <<>> THEN Zero
    ELSE RoundQuotient(BigDiv(BigShl(x.m, MantissaBits + 2), y.m),
                       x.e - y.e - MantissaBits - 3)

\* x < y for doubles x, y >= 0
FLt(x, y) ==
    IF y.m = <<>> THEN FALSE
    ELSE IF x.m = <<>> THEN TRUE
    ELSE IF x.e # y.e THEN x.e < y.e
    ELSE BigLess(x.m, y.m)

\* max(x, y)
FMax(x, y) == IF FLt(x, y) THEN y ELSE x

\* the number of the limbs n, below 2^30
SmallOf(n) == Limb(n, 1) + LimbBase * Limb(n, 2) + LimbBase * LimbBase * Limb(n, 3)

\* int(x) for a double 0 <= x < 2^30
FTrunc(x) ==
    IF x.m = <<>> THEN 0
    ELSE SmallOf(IF x.e >= 0 THEN BigShl(x.m, x.e) ELSE BigShr(x.m, -x.e))

\* float(r) for a decimal r >= 0
Double(r) == IF r[1] = 0 THEN Zero ELSE DoubleOf(r[1], r[2])

\* the quotient x / y of two doubles rounds to a double below the integer
\* k >= 1: x / y is below the midpoint of k and the double before k (a tie
\* rounds to k, whose mantissa is even)
QuotientBelow(x, y, k) ==
    IF x.m = <<>> \/ y.m = <<>> THEN x.m = <<>>
    ELSE
    LET lg == FloorLog2(k)
        c == IF k = Pow2(lg) THEN 54 - lg ELSE 53 - lg
        bound == BigDec(BigShl(BigOf(k), c))
        el == x.e + c
        er == y.e
        low == IF el < er THEN el ELSE er
    IN  BigLess(BigShl(x.m, el - low), BigShl(BigMul(y.m, bound), er - low))

\* int(x / float(step)) for a double x > 0 that stands for the number v
\* (float(v), or v computed in a few float operations).  The rounded
\* quotient is within 2^-50 of v / step, so it truncates to floor(v / step)
\* unless v / step is an integer k, where it is k or the double before k
DoubleQuotientInt(x, v, step) ==
    LET q == RDiv(v, step)
    IN  IF q[1] = 0 \/ q[2] # 1 THEN Trunc(q)
        ELSE IF QuotientBelow(x, DoubleOf(step[1], step[2]), q[1]) THEN q[1] - 1
        ELSE q[1]

\* int(float(v) / float(step)) for decimals v >= 0 and step > 0
FloatQuotientInt(v, step) ==
    IF v[1] = 0 THEN 0 ELSE DoubleQuotientInt(DoubleOf(v[1], v[2]), v, step)

RECURSIVE Precision(_)
\* len(step.rstrip('0').split('.')[-1]) if '.' in step else 0: the number
\* of decimals of the step
Precision(step) == IF step[2] = 1 THEN 0 ELSE 1 + Precision(RMul(step, RInt(10)))

\* f"{x:.{precision}f}": x to the nearest multiple of 10^-precision (ties
\* to even); the rounding error of int(..) * float(step) is far below half
\* a unit of the last decimal and disappears here
FixedPoint(x, precision) ==
    LET unit == 10 ^ precision
        scaled == RMul(x, RInt(unit))
        lower == IF scaled[1] >= 0 THEN scaled[1] \div scaled[2]
                 ELSE -((-scaled[1] + scaled[2] - 1) \div scaled[2])
        twice == 2 * (scaled[1] - lower * scaled[2])
        up == twice > scaled[2] \/ (twice = scaled[2] /\ lower % 2 = 1)
    IN  Rat(IF up THEN lower + 1 ELSE lower, unit)

\* n * float(step) printed with the step's decimals
FormatMultiple(n, step) ==
    IF n = 0 THEN RInt(0) ELSE FixedPoint(RMul(RInt(n), step), Precision(step))

\* int(value / float(step)) * float(step) printed with the step's decimals
FormatStep(value, step) ==
    FormatMultiple(IF value[1] >= 0 THEN FloatQuotientInt(value, step)
                   ELSE -FloatQuotientInt(RSub(RInt(0), value), step), step)

\* the same for a double x > 0 standing for the number v
FormatDouble(x, v, step) == FormatMultiple(DoubleQuotientInt(x, v, step), step)

\* ------------------------------------------------------------------------
\* BybitClient.format_price / format_quantity
\* ------------------------------------------------------------------------
\* format_price(price, tick_size), read back as a number
format_price(price, tick) == FormatStep(price, tick)

\* format_quantity(qty, qty_step), read back as a number
format_quantity(qty, step) == FormatStep(qty, step)

\* ------------------------------------------------------------------------
\* GridLogic: level computation
\* ------------------------------------------------------------------------
\* abs(x - y) for doubles x, y >= 0
FAbsDiff(x, y) == IF FLt(x, y) THEN FSub(y, x) ELSE FSub(x, y)

RECURSIVE SumFrom(_, _, _)
\* res += a[k] for k from i on, one after the other
SumFrom(a, i, res) ==
    IF i > Len(a) THEN res ELSE SumFrom(a, i + 1, FAdd(res, a[i]))

RECURSIVE LaneSums(_, _, _, _)
\* the unrolled block of numpy's sum: eight accumulators r, accumulator j
\* adding a[i + j] of every block of eight below `full`
LaneSums(a, r, i, full) ==
    IF i >= full THEN r
    ELSE LaneSums(a, Tuple([j \in 1..8 |-> FAdd(r[j], a[i + j])]), i + 8, full)

RECURSIVE PairwiseSum(_)
\* the sum np.mean takes of a list of doubles (add.reduce, pairwise): fewer
\* than 8 one after the other; up to 128 in eight accumulators that are
\* added as a tree, the rest one after the other; more in two halves
PairwiseSum(a) ==
    LET n == Len(a)
    IN  IF n < 8 THEN SumFrom(a, 1, Zero)
        ELSE IF n <= 128
        THEN LET full == n - (n % 8)
                 r == LaneSums(a, SubSeq(a, 1, 8), 8, full)
             IN  SumFrom(a, full + 1,
                         FAdd(FAdd(FAdd(r[1], r[2]), FAdd(r[3], r[4])),
                              FAdd(FAdd(r[5], r[6]), FAdd(r[7], r[8]))))
        ELSE LET half == (n \div 2) - ((n \div 2) % 8)
             IN  FAdd(PairwiseSum(SubSeq(a, 1, half)), PairwiseSum(SubSeq(a, half + 1, n)))

\* calculate_atr: np.mean of the absolute differences of the last 2 * period
\* prices, a double; 0.0 when the history is shorter
calculate_atr(period) ==
    IF Len(price_history) < period * 2 THEN Zero
    ELSE LET n == Len(price_history)
             prices == Tuple([i \in 1..(period * 2) |->
                                 Double(price_history[n - period * 2 + i].price)])
             ranges == Tuple([i \in 1..(period * 2 - 1) |-> FAbsDiff(prices[i + 1], prices[i])])
         IN  FDiv(PairwiseSum(ranges), Double(RInt(period * 2 - 1)))

\* min(base_spacing * 1.2, self.grid_spacing_max); the float product of each
\* profile's spacing is the double of the decimal one
WidenedSpacing(base_spacing) ==
    LET widened == RMul(base_spacing, Rat(12, 10))
    IN  IF RLt(grid_spacing_max, widened) THEN grid_spacing_max ELSE widened

\* get_grid_spacing: atr / center_price > 0.005 in doubles widens the spacing
get_grid_spacing(profile) ==
    LET base_spacing == ProfileConfig(profile).grid_spacing
        atr == calculate_atr(AtrPeriod)
    IN  IF FLt(Zero, atr) /\ RLt(RInt(0), center_price)
        THEN IF FLt(Double(Rat(5, 1000)), FDiv(atr, Double(center_price)))
             THEN WidenedSpacing(base_spacing)
             ELSE base_spacing
        ELSE base_spacing

\* the fields of the instrument the level computation reads (`self` below)
Instrument ==
    [tick_size |-> tick_size, qty_step |-> qty_step,
     min_order_qty |-> min_order_qty, min_notional |-> min_notional]

\* float(format_quantity(qty, step)) for a double qty >= 0
FormatFloat(qty, step) == FormatMultiple(FTrunc(FDiv(qty, Double(step))), step)

\* the end of _calculate_order_qty: qty_float, or the minimum for the
\* notional on the step when qty_float x price falls short
OrderQtyOnStep(self, price, qty_float, min_qty_for_notional) ==
    IF FLt(FMul(Double(qty_float), price), Double(self.min_notional))
    THEN FormatFloat(min_qty_for_notional, self.qty_step)
    ELSE qty_float

\* _calculate_order_qty from min_qty_for_notional on: the two max() and the
\* quantity put on the step
OrderQtyWithMin(self, price, budget, min_qty_for_notional) ==
    OrderQtyOnStep(self, price,
                   FormatFloat(FMax(FMax(FDiv(budget, price), Double(self.min_order_qty)),
                                    min_qty_for_notional), self.qty_step),
                   min_qty_for_notional)

\* _calculate_order_qty for the doubles price > 0 and budget
OrderQtyAt(self, price, budget) ==
    OrderQtyWithMin(self, price, budget, FDiv(Double(self.min_notional), price))

\* _calculate_order_qty for a level price > 0 (the float of a formatted
\* price) and the double `budget`
calculate_order_qty(self, price, budget) == OrderQtyAt(self, Double(price), budget)

\* center_price * (1 - spacing * i) and center_price * (1 + spacing * i) in
\* doubles, for center_price > 0
LevelPriceDouble(center, spacing, i, side) ==
    LET step == FMul(DoubleOf(spacing[1], spacing[2]), DoubleOf(i, 1))
        one == DoubleOf(1, 1)
    IN  FMul(DoubleOf(center[1], center[2]),
             IF side = "Buy" THEN FSub(one, step) ELSE FAdd(one, step))

\* the price of BUY level i / SELL level i
BuyLevelPrice(self, center, spacing, i) ==
    LET price == RMul(center, RSub(RInt(1), RMul(spacing, RInt(i))))
    IN  IF price[1] > 0 /\ center[1] > 0
        THEN FormatDouble(LevelPriceDouble(center, spacing, i, "Buy"), price,
                          self.tick_size)
        ELSE format_price(price, self.tick_size)

SellLevelPrice(self, center, spacing, i) ==
    LET price == RMul(center, RAdd(RInt(1), RMul(spacing, RInt(i))))
    IN  IF center[1] > 0
        THEN FormatDouble(LevelPriceDouble(center, spacing, i, "Sell"), price,
                          self.tick_size)
        ELSE format_price(price, self.tick_size)

\* qty * price of a level, both floats of formatted strings
Notional(qty, price) == FMul(Double(qty), Double(price))

\* the dict appended for one level, given its quantity
LevelDict(i, side, price, qty) ==
    [level |-> IF side = "Buy" THEN -i ELSE i, price |-> price, qty |-> qty,
     side |-> side, notional |-> Notional(qty, price)]

\* the dict appended for one level
GridLevel(self, i, side, price, budget) ==
    LevelDict(i, side, price, calculate_order_qty(self, price, budget))

\* the test `qty > 0 and qty * price >= self.min_notional`
LevelKept(self, l) ==
    RLt(RInt(0), l.qty) /\ ~ FLt(l.notional, Double(self.min_notional))

\* mutant: the remainder level of an odd capacity is kept
LevelsPerSide_KeepRemainder(max_possible_levels, target_levels) ==
    IF max_possible_levels < target_levels + target_levels
    THEN (max_possible_levels + 1) \div 2
    ELSE target_levels

\* the number of levels per side calculate_grid_levels attempts, given
\* max_possible_levels >= 2
LevelsPerSide(max_possible_levels, target_levels) ==
    IF max_possible_levels < target_levels + target_levels
    THEN max_possible_levels \div 2
    ELSE target_levels

\* min_budget_per_level = min_notional * 1.1
MinBudgetPerLevel(self) == FMul(Double(self.min_notional), Double(Rat(11, 10)))

\* mutant: the level capacity rounded up instead of truncated
MaxPossibleLevels_RoundUp(self, available_capital) ==
    FTrunc(FDiv(Double(available_capital), MinBudgetPerLevel(self))) + 1

\* max_possible_levels = int(available_capital / min_budget_per_level)
MaxPossibleLevels(self, available_capital) ==
    FTrunc(FDiv(Double(available_capital), MinBudgetPerLevel(self)))

\* the levels kept at the given level prices; raised when a level price of 0
\* makes _calculate_order_qty divide by zero
LevelsAt(self, buy_prices, sell_prices, budget_per_level) ==
    IF \E i \in DOMAIN buy_prices : buy_prices[i][1] = 0 \/ sell_prices[i][1] = 0
    THEN [buy |-> <<>>, sell |-> <<>>, raised |-> TRUE]
    ELSE [buy |-> SelectSeq([i \in DOMAIN buy_prices |->
                               GridLevel(self, i, "Buy", buy_prices[i], budget_per_level)],
                            LAMBDA l : LevelKept(self, l)),
          sell |-> SelectSeq([i \in DOMAIN sell_prices |->
                                GridLevel(self, i, "Sell", sell_prices[i],
                                          budget_per_level)],
                             LAMBDA l : LevelKept(self, l)),
          raised |-> FALSE]

\* the two loops of calculate_grid_levels over n levels per side
LevelsWithSpacing(self, center, spacing, n, budget_per_level) ==
    LevelsAt(self, Tuple([i \in 1..n |-> BuyLevelPrice(self, center, spacing, i)]),
             Tuple([i \in 1..n |-> SellLevelPrice(self, center, spacing, i)]),
             budget_per_level)

\* calculate_grid_levels with n levels per side: budget_per_level is
\* available_capital / (levels_per_side * 2)
LevelsPerSideOf(self, center, spacing, n, available_capital) ==
    LevelsWithSpacing(self, center, spacing, n,
                      FDiv(Double(available_capital), Double(RInt(n + n))))

\* calculate_grid_levels from max_possible_levels on
LevelsWithinCapacity(self, center, spacing, target_levels, available_capital, max_possible_levels) ==
    IF max_possible_levels < 2
    THEN [buy |-> <<>>, sell |-> <<>>, raised |-> FALSE]
    ELSE LevelsPerSideOf(self, center, spacing,
                         LevelsPerSide(max_possible_levels, target_levels),
                         available_capital)

\* calculate_grid_levels once get_grid_spacing and the profile's
\* target_levels are read: [buy, sell] and whether it raised
GridLevelsFor(self, center, spacing, target_levels, available_capital) ==
    LevelsWithinCapacity(self, center, spacing, target_levels, available_capital,
                         MaxPossibleLevels(self, available_capital))

\* the spacing and target_levels a profile can give: its own spacing or the
\* widened one
LevelSettings ==
    UNION {{<<spacing, Profiles[p].target_levels>> :
               spacing \in {Profiles[p].grid_spacing,
                            WidenedSpacing(Profiles[p].grid_spacing)}} :
           p \in ProfileNames}

\* GridLevelsFor on the instrument, the capital and the prices of the bot
\* scenarios, computed once (@@ with the empty function makes the table an
\* explicit one)
BotGridLevels ==
    [k \in (BotPrices \cup RecenterPrices \cup HistoryPrices) \X LevelSettings |->
        IF k[1][1] = 0 THEN <<>>
        ELSE GridLevelsFor(BotInstrument, k[1], k[2][1], k[2][2], BotCapital)] @@ <<>>

\* GridLevelsFor, looked up where it is computed already
GridLevelsOf(self, center, spacing, target_levels, available_capital) ==
    IF /\ self = BotInstrument
       /\ available_capital = BotCapital
       /\ center[1] # 0
       /\ <<center, <<spacing, target_levels>>>> \in DOMAIN BotGridLevels
    THEN BotGridLevels[<<center, <<spacing, target_levels>>>>]
    ELSE GridLevelsFor(self, center, spacing, target_levels, available_capital)

\* calculate_grid_levels: [buy, sell] and whether it raised
calculate_grid_levels(center, profile, available_capital) ==
    GridLevelsOf(Instrument, center, get_grid_spacing(profile),
                 ProfileConfig(profile).target_levels, available_capital)

\* ------------------------------------------------------------------------
\* GridLogic: the recenter decision
\* ------------------------------------------------------------------------
MinOf(S) == CHOOSE x \in S : \A y \in S : RLe(x, y)

MaxOf(S) == CHOOSE x \in S : \A y \in S : RLe(y, x)

\* the samples of price_history not older than `hours`
RecentPrices(hours) ==
    SelectSeq(price_history, LAMBDA p : p.timestamp >= now - hours * MinutesPerHour)

NoTrigger == [trigger |-> FALSE, reason |-> "", ref |-> <<>>]

Trigger(reason, ref) == [trigger |-> TRUE, reason |-> reason, ref |-> ref]

\* the one-sided dominance condition: the reason it gives, or ""
OneSideReason ==
    LET recent == RecentPrices(one_side_hours)
        above == Len(SelectSeq(recent, LAMBDA p : RLt(center_price, p.price)))
    IN  IF Len(price_history) >= MinHistorySamples /\ Len(recent) > 0
        THEN IF RLt(Rat(8, 10), Rat(above, Len(recent))) THEN "one_side_above"
             ELSE IF RLt(Rat(above, Len(recent)), Rat(2, 10)) THEN "one_side_below"
             ELSE ""
        ELSE ""

\* the pump/dump condition
PumpDump ==
    LET recent == RecentPrices(1)
        prices == {recent[i].price : i \in 1..Len(recent)}
    IN  /\ Len(price_history) >= MinHistorySamples
        /\ Len(recent) > 0
        /\ ~ FLt(FDiv(FSub(Double(MaxOf(prices)), Double(MinOf(prices))),
                      Double(MinOf(prices))),
                 Double(pump_dump_pct))

\* mutant: an empty order list is reported as nothing to do
should_recenter_SkipEmpty(current_price, orders) == NoTrigger

\* should_recenter after both awaits: current_price > 0 was read and
\* `orders` is the list get_open_orders returned ([side, price] of each)
should_recenter(current_price, orders) ==
    LET buy_prices == {o.price : o \in {x \in orders : x.side = "Buy"}}
        sell_prices == {o.price : o \in {x \in orders : x.side = "Sell"}}
    IN  IF orders = {} THEN Trigger("no_active_orders", <<>>)
        ELSE IF buy_prices = {} \/ sell_prices = {} THEN NoTrigger
        ELSE LET lowest_buy == MinOf(buy_prices)
                 highest_sell == MaxOf(sell_prices)
             IN  IF FLt(FMul(Double(highest_sell),
                             FAdd(Double(RInt(1)), Double(price_deviation_pct))),
                        Double(current_price))
                 THEN Trigger("deviation_high", highest_sell)
                 ELSE IF FLt(Double(current_price),
                             FMul(Double(lowest_buy),
                                  FSub(Double(RInt(1)), Double(price_deviation_pct))))
                 THEN Trigger("deviation_low", lowest_buy)
                 ELSE IF RLe(RInt(time_based_hours),
                             Rat(now - last_recenter_time, MinutesPerHour))
                 THEN Trigger("time_based", <<>>)
                 ELSE IF OneSideReason # "" THEN Trigger(OneSideReason, <<>>)
                 ELSE IF PumpDump THEN Trigger("pump_dump", <<>>)
                 ELSE NoTrigger

\* mutant: past the bound the newest entries are the ones dropped
HistoryAppend_KeepOldest(price) ==
    LET h == Append(price_history, [price |-> price, timestamp |-> now])
    IN  IF Len(h) > max_history_points
        THEN SubSeq(h, 1, max_history_points)
        ELSE h

\* get_current_price's bookkeeping for a price > 0: append and trim
HistoryAppend(price) ==
    LET h == Append(price_history, [price |-> price, timestamp |-> now])
    IN  IF Len(h) > max_history_points
        THEN SubSeq(h, Len(h) - max_history_points + 1, Len(h))
        ELSE h

\* ------------------------------------------------------------------------
\* Gateway answers as the RiskManager sees them
\* ------------------------------------------------------------------------
WalletResponses ==
    [kind : {"ok"}, equity : EquityValues]
        \cup {[kind |-> "error", equity |-> 0], [kind |-> "raise", equity |-> 0]}

PositionResponses ==
    [kind : {"ok"}, value : PositionValues]
        \cup {[kind |-> "error", value |-> 0], [kind |-> "raise", value |-> 0]}

\* BybitClient.get_wallet_balance followed by safe_float(wallet['totalEquity']):
\* a result without a wallet list becomes the "safe defaults" dict, whose
\* totalEquity is '0'; the dict is never empty
WalletEquity(w) == IF w.kind = "ok" THEN w.equity ELSE 0

\* BybitClient.get_positions and the summing loop of check_max_exposure:
\* a result without a list is an empty list of positions
PositionValue(p) == IF p.kind = "ok" THEN p.value ELSE 0

\* ------------------------------------------------------------------------
\* Control: where a call returns to
\* ------------------------------------------------------------------------
\* control state: set by every step of a coroutine
ctrlVars == <<pc, ret, loc, running>>

\* the position of a task suspended in a gateway call whose answer has
\* arrived (its future resolved, its wake-up queued) when client.close()
\* closes the session: the task is resumed with that answer, while a request
\* still in flight, or sent later, fails on the closed session
Arrived ==
    [sg_price |-> "sg_price_arrived", sg_balance |-> "sg_balance_arrived",
     sg_cancel |-> "sg_cancel_arrived", sg_place |-> "sg_place_arrived",
     rc_cancel |-> "rc_cancel_arrived", sr_price |-> "sr_price_arrived",
     sr_orders |-> "sr_orders_arrived", uet_wallet |-> "uet_wallet_arrived",
     ks_cancel |-> "ks_cancel_arrived", cme_positions |-> "cme_positions_arrived",
     cme_wallet |-> "cme_wallet_arrived", stop_cancel |-> "stop_cancel_arrived"]

GatewayAwaits == DOMAIN Arrived

\* task t is suspended in a gateway call, no answer to it consumed yet
InFlight(t) == pc[t] \in GatewayAwaits

\* the positions of the tasks whose answer had arrived when the session was
\* closed
ArrivedLabels == {Arrived[label] : label \in DOMAIN Arrived}

HasArrived(t) == pc[t] \in ArrivedLabels

\* task t is resumed from the gateway call it awaits at `label`
Resumes(t, label) == pc[t] \in {label, Arrived[label]}

\* what the RiskManager's steps never touch
restVars == <<instrVars, bot_task, gridVars, active_profile, exVars, price_reads>>

\* task t suspends at await `label` of the frame it is in
Goto(t, label) ==
    /\ pc' = [pc EXCEPT ![t] = label]
    /\ UNCHANGED <<ret, loc, running>>

\* task t's request is answered: the handler returns
Finish(t) ==
    /\ pc' = [pc EXCEPT ![t] = "idle"]
    /\ ret' = [ret EXCEPT ![t] = "none"]
    /\ loc' = [loc EXCEPT ![t] = NoLocals]
    /\ UNCHANGED running

\* a monitoring loop's iteration ends: it sleeps, then tests `while running`
LoopSleep(t) ==
    /\ pc' = [pc EXCEPT ![t] = "loop_top"]
    /\ ret' = [ret EXCEPT ![t] = "none"]
    /\ loc' = [loc EXCEPT ![t] = NoLocals]
    /\ UNCHANGED running

\* start_trading after a successful setup: running is set and the
\* monitoring loops are gathered
StartLoops(t) ==
    /\ running' = TRUE
    /\ pc' = [x \in Tasks |-> IF x = t THEN "gather"
                              ELSE IF x \in LoopsOf(t) THEN "loop_top" ELSE pc[x]]
    /\ ret' = [ret EXCEPT ![t] = "none"]
    /\ loc' = [loc EXCEPT ![t] = NoLocals]

\* task t calls setup_grid(profile), which suspends at get_current_price;
\* `from` is the caller it returns to
CallSetup(t, profile, from) ==
    /\ pc' = [pc EXCEPT ![t] = "sg_price"]
    /\ ret' = [ret EXCEPT ![t] = from]
    /\ loc' = [loc EXCEPT ![t] = [NoLocals EXCEPT !.profile = profile]]
    /\ price_reads' = price_reads + 1
    /\ UNCHANGED running

\* a loop that sleeps again where it should return
LoopExit_Sleeps(t) == LoopSleep(t)

\* a monitoring loop finds `running` false and returns; start_trading's
\* gather returns with the last of them
LoopExit(t) ==
    /\ pc' = [x \in Tasks |->
                IF x = t THEN "off"
                ELSE IF /\ pc[x] = "gather"
                        /\ t \in LoopsOf(x)
                        /\ \A l \in LoopsOf(x) \ {t} : pc[l] = "off"
                     THEN "idle" ELSE pc[x]]
    /\ UNCHANGED <<ret, loc, running>>

\* last_op after an exception reached the error boundary of loop t
LoopErrorOp(t) == [op |-> "loop_error", kind |-> t]

\* a loop without the error boundary: the exception ends the coroutine
LoopError_Exits(t) ==
    /\ last_op' = LoopErrorOp(t)
    /\ LoopExit(t)

\* the `except Exception` around a loop's iteration: the error is logged and
\* the loop sleeps its backoff, then tests `while running`
LoopError(t) ==
    /\ last_op' = LoopErrorOp(t)
    /\ LoopSleep(t)

\* task t calls recenter_grid(reason, profile), which suspends in its
\* cancel_all_orders (the db.log_event before it changes nothing here)
CallRecenter(t, reason, profile, from) ==
    /\ pc' = [pc EXCEPT ![t] = "rc_cancel"]
    /\ ret' = [ret EXCEPT ![t] = from]
    /\ loc' = [loc EXCEPT ![t] = [NoLocals EXCEPT !.profile = profile, !.reason = reason]]
    /\ UNCHANGED running

\* setup_grid has returned `ok` to its caller:
\*   start_trading       - starts the loops, or returns
\*   recenter_grid       - stamps last_recenter_time on success and returns to
\*                         the grid monitor (which sleeps) or to change_profile
AfterSetup(t, ok) ==
    CASE ret[t] = "st" ->
           /\ IF ok THEN StartLoops(t) ELSE Finish(t)
           /\ UNCHANGED last_recenter_time
      [] ret[t] = "gm_rc" ->
           /\ last_recenter_time' = IF ok THEN now ELSE last_recenter_time
           /\ LoopSleep(t)
      [] ret[t] = "cp_rc" ->
           /\ last_recenter_time' = IF ok THEN now ELSE last_recenter_time
           /\ Finish(t)

\* recenter_grid caught an exception of its own awaits and returns False
RecenterFailed(t) ==
    /\ IF ret[t] = "gm_rc" THEN LoopSleep(t) ELSE Finish(t)
    /\ UNCHANGED last_recenter_time

\* update_equity_tracking has returned to its caller (get_risk_metrics, or
\* the risk monitor), which goes on to check_max_exposure and suspends at
\* its get_positions
AfterUpdateEquity(t) == Goto(t, "cme_positions")

\* check_max_exposure has returned `ok` to its caller:
\*   get_risk_metrics of a request   - the metrics are computed and returned
\*   the risk monitor                - calls get_risk_metrics
\*   get_risk_metrics of the monitor - the monitor calls stop_trading when the
\*                                     kill-switch is active, else sleeps
\*   the grid monitor                - recenters when ok, else sleeps
AfterCheckExposure(t, ok) ==
    CASE ret[t] = "grm" -> Finish(t)
      [] ret[t] = "rm_loop" ->
           /\ pc' = [pc EXCEPT ![t] = "uet_wallet"]
           /\ ret' = [ret EXCEPT ![t] = "rm_grm"]
           /\ UNCHANGED <<loc, running>>
      [] ret[t] = "rm_grm" ->
           IF kill_switch_active /\ running
           THEN /\ running' = FALSE
                /\ pc' = [pc EXCEPT ![t] = "stop_cancel"]
                /\ ret' = [ret EXCEPT ![t] = "rm_stop"]
                /\ UNCHANGED loc
           ELSE LoopSleep(t)
      [] ret[t] = "gm" ->
           IF ok THEN CallRecenter(t, loc[t].reason, active_profile, "gm_rc")
           ELSE LoopSleep(t)

\* ------------------------------------------------------------------------
\* RiskManager
\* ------------------------------------------------------------------------
\* the drawdown of _check_drawdown, for daily_max > 0
Drawdown(daily_max, current_equity) ==
    RDiv(RInt(daily_max - current_equity), RInt(daily_max))

\* mutant: the threshold compared strictly (drawdown > pct)
DrawdownExceeded_Strict(daily_max, current_equity) ==
    /\ daily_max > 0
    /\ RLt(kill_switch_drawdown_pct, Drawdown(daily_max, current_equity))

\* the test of _check_drawdown: trigger_kill_switch is called
DrawdownExceeded(daily_max, current_equity) ==
    /\ daily_max > 0
    /\ RLe(kill_switch_drawdown_pct, Drawdown(daily_max, current_equity))

\* mutant: the daily maximum follows the equity down as well as up
NewDailyMax_Follow(total_equity) == total_equity

\* the daily maximum update_equity_tracking stores, given the equity read
NewDailyMax(total_equity) ==
    IF Date(now) # Date(last_equity_check)
    THEN total_equity
    ELSE IF total_equity > daily_max_equity THEN total_equity ELSE daily_max_equity

\* mutant: no "already active" guard
trigger_kill_switch_Unguarded(t, reason) ==
    /\ kill_switch_active' = TRUE
    /\ kill_switch_reason' = reason
    /\ ks_triggers' = IF kill_switch_active THEN ks_triggers ELSE ks_triggers + 1
    /\ Goto(t, "ks_cancel")

\* trigger_kill_switch up to its first await (cancel_all_orders): the guard
\* and the two assignments; task t goes on to the cancel call only when the
\* kill-switch was not active
trigger_kill_switch(t, reason) ==
    IF kill_switch_active
    THEN /\ UNCHANGED <<kill_switch_active, kill_switch_reason, ks_triggers>>
         /\ AfterUpdateEquity(t)
    ELSE /\ kill_switch_active' = TRUE
         /\ kill_switch_reason' = reason
         /\ ks_triggers' = ks_triggers + 1
         /\ Goto(t, "ks_cancel")

\* mutant: an equity within the threshold clears the kill-switch
check_drawdown_Recover(t, daily_max, total_equity) ==
    IF DrawdownExceeded(daily_max, total_equity)
    THEN trigger_kill_switch(t, [max |-> daily_max, current |-> total_equity])
    ELSE /\ kill_switch_active' = FALSE
         /\ kill_switch_reason' = <<>>
         /\ UNCHANGED ks_triggers
         /\ AfterUpdateEquity(t)

\* _check_drawdown with the values update_equity_tracking has just stored
check_drawdown(t, daily_max, total_equity) ==
    IF DrawdownExceeded(daily_max, total_equity)
    THEN trigger_kill_switch(t, [max |-> daily_max, current |-> total_equity])
    ELSE /\ UNCHANGED <<kill_switch_active, kill_switch_reason, ks_triggers>>
         /\ AfterUpdateEquity(t)

\* a request handler calls get_risk_metrics, which calls
\* update_equity_tracking, which suspends at get_wallet_balance
get_risk_metrics(t) ==
    /\ pc[t] = "idle"
    /\ pc' = [pc EXCEPT ![t] = "uet_wallet"]
    /\ ret' = [ret EXCEPT ![t] = "grm"]
    /\ last_op' = OtherStep
    /\ UNCHANGED <<now, ticks, riskVars, obsVars, restVars, loc, running>>

\* update_equity_tracking resumed with the wallet answer w, through
\* _check_drawdown and trigger_kill_switch's synchronous part
update_equity_tracking(t, w) ==
    /\ Resumes(t, "uet_wallet")
    /\   /\ last_op' = [op |-> "update_equity_tracking", kind |-> w.kind]
         /\ IF w.kind = "raise"
            THEN /\ UNCHANGED <<riskVars, obsVars>>
                 /\ AfterUpdateEquity(t)
            ELSE LET total_equity == WalletEquity(w)
                     daily_max == NewDailyMax(total_equity)
                 IN  /\ daily_max_equity' = daily_max
                     /\ total_equity_usdt' = total_equity
                     /\ last_equity_check' = now
                     /\ UNCHANGED <<current_exposure_usdt, ks_cancel_calls, ks_events,
                                    exposure_result>>
                     /\ check_drawdown(t, daily_max, total_equity)
    /\ UNCHANGED <<now, ticks, restVars>>

\* trigger_kill_switch resumed from cancel_all_orders: an accepted request
\* empties the book; an exception skips the event record
ks_cancel(t, kind) ==
    /\ Resumes(t, "ks_cancel")
    /\   /\ last_op' = OtherStep
         /\ ks_cancel_calls' = ks_cancel_calls + 1
         /\ ex_orders' = IF kind = "ok" THEN {} ELSE ex_orders
         /\ IF kind = "raise"
            THEN AfterUpdateEquity(t)
            ELSE Goto(t, "ks_log")
    /\ UNCHANGED <<now, ticks, riskVars, ks_triggers, ks_events, exposure_result,
                   instrVars, bot_task, gridVars, active_profile, ex_next_id, place_calls,
                   price_reads>>

\* the outcomes of StateStore.log_event: the row is committed, or the INSERT
\* or commit fails, which log_event logs and swallows
StoreKinds == {"ok", "error"}

\* trigger_kill_switch resumed from db.log_event, which returns normally
\* whether or not the event was persisted
ks_log(t, kind) ==
    /\ pc[t] = "ks_log"
    /\ ks_events' = IF kind = "ok" THEN ks_events + 1 ELSE ks_events
    /\ last_op' = OtherStep
    /\ AfterUpdateEquity(t)
    /\ UNCHANGED <<now, ticks, riskVars, ks_triggers, ks_cancel_calls,
                   exposure_result, restVars>>

\* the value check_max_exposure returns, as the observation records it
ExposureResult(ok) == IF ok THEN "ok" ELSE "exceeded"

\* check_max_exposure resumed from get_positions: the exposure is stored,
\* then the wallet is asked for
cme_positions(t, p) ==
    /\ Resumes(t, "cme_positions")
    /\   /\ last_op' = OtherStep
         /\ IF p.kind = "raise"
            THEN /\ UNCHANGED riskVars
                 /\ exposure_result' = ExposureResult(FALSE)
                 /\ AfterCheckExposure(t, FALSE)
            ELSE /\ current_exposure_usdt' = PositionValue(p)
                 /\ UNCHANGED <<kill_switch_active, kill_switch_reason,
                                daily_max_equity, last_equity_check,
                                total_equity_usdt, exposure_result>>
                 /\ Goto(t, "cme_wallet")
    /\ UNCHANGED <<now, ticks, ks_triggers, ks_cancel_calls, ks_events, restVars>>

\* the verdict of check_max_exposure once the equity is known
ExposureWithinLimits(exposure, total_equity) ==
    /\ total_equity > 0
    /\ ~ RLt(max_exposure_pct, RDiv(RInt(exposure), RInt(total_equity)))

\* check_max_exposure resumed from get_wallet_balance
cme_wallet(t, w) ==
    /\ Resumes(t, "cme_wallet")
    /\   /\ last_op' = OtherStep
         /\ IF w.kind = "raise"
            THEN /\ UNCHANGED riskVars
                 /\ exposure_result' = ExposureResult(FALSE)
                 /\ AfterCheckExposure(t, FALSE)
            ELSE /\ total_equity_usdt' = WalletEquity(w)
                 /\ UNCHANGED <<kill_switch_active, kill_switch_reason,
                                daily_max_equity, last_equity_check,
                                current_exposure_usdt>>
                 /\ IF WalletEquity(w) > 0
                       /\ ~ ExposureWithinLimits(current_exposure_usdt, WalletEquity(w))
                    THEN /\ UNCHANGED exposure_result
                         /\ Goto(t, "cme_log")
                    ELSE LET ok == ExposureWithinLimits(current_exposure_usdt,
                                                        WalletEquity(w))
                         IN  /\ exposure_result' = ExposureResult(ok)
                             /\ AfterCheckExposure(t, ok)
    /\ UNCHANGED <<now, ticks, ks_triggers, ks_cancel_calls, ks_events, restVars>>

\* RiskManager.validate_order_size (no caller in the repository): with no
\* equity known it awaits get_wallet_balance; else it answers at once
validate_order_size(t) ==
    /\ pc[t] = "idle"
    /\ IF total_equity_usdt <= 0
       THEN Goto(t, "vos_wallet")
       ELSE UNCHANGED <<pc, ret, loc, running>>
    /\ last_op' = OtherStep
    /\ UNCHANGED <<now, ticks, riskVars, obsVars, restVars>>

\* validate_order_size resumed from get_wallet_balance: the wallet (never
\* empty) is stored as the equity, an exception leaves it; the answer is
\* returned
vos_wallet(t, w) ==
    /\ pc[t] = "vos_wallet"
    /\ total_equity_usdt' = IF w.kind = "raise" THEN total_equity_usdt ELSE WalletEquity(w)
    /\ Finish(t)
    /\ last_op' = OtherStep
    /\ UNCHANGED <<kill_switch_active, kill_switch_reason, daily_max_equity,
                   last_equity_check, current_exposure_usdt>>
    /\ UNCHANGED <<now, ticks, obsVars, restVars>>

\* mutant: a breach trips the kill-switch
cme_log_Trips(t) ==
    /\ pc[t] = "cme_log"
    /\ last_op' = OtherStep
    /\ exposure_result' = ExposureResult(FALSE)
    /\ AfterCheckExposure(t, FALSE)
    /\ kill_switch_active' = TRUE
    /\ kill_switch_reason' = [max |-> daily_max_equity, current |-> total_equity_usdt]
    /\ UNCHANGED <<daily_max_equity, last_equity_check, current_exposure_usdt,
                   total_equity_usdt>>
    /\ UNCHANGED <<now, ticks, ks_triggers, ks_cancel_calls, ks_events, restVars>>

\* check_max_exposure resumed from the db.log_event of a breach: returns False
cme_log(t) ==
    /\ pc[t] = "cme_log"
    /\ last_op' = OtherStep
    /\ exposure_result' = ExposureResult(FALSE)
    /\ AfterCheckExposure(t, FALSE)
    /\ UNCHANGED <<now, ticks, riskVars, ks_triggers, ks_cancel_calls, ks_events,
                   restVars>>

\* mutant: the reset runs whether or not the kill-switch is active
deactivate_kill_switch_Unconditional ==
    /\ ks_triggers < MaxTriggers
    /\ last_op' = [op |-> "deactivate_kill_switch",
                  kind |-> IF kill_switch_active THEN "active" ELSE "inactive"]
    /\ kill_switch_active' = FALSE
    /\ kill_switch_reason' = <<>>
    /\ daily_max_equity' = total_equity_usdt
    /\ UNCHANGED <<last_equity_check, current_exposure_usdt, total_equity_usdt>>
    /\ UNCHANGED <<now, ticks, obsVars, restVars, ctrlVars>>

\* mutant: the daily maximum is left as it was
deactivate_kill_switch_KeepMax ==
    /\ ks_triggers < MaxTriggers
    /\ last_op' = [op |-> "deactivate_kill_switch",
                  kind |-> IF kill_switch_active THEN "active" ELSE "inactive"]
    /\ IF kill_switch_active
       THEN /\ kill_switch_active' = FALSE
            /\ kill_switch_reason' = <<>>
            /\ UNCHANGED <<daily_max_equity, last_equity_check,
                           current_exposure_usdt, total_equity_usdt>>
       ELSE UNCHANGED riskVars
    /\ UNCHANGED <<now, ticks, obsVars, restVars, ctrlVars>>

\* deactivate_kill_switch (POST /api/killswitch/deactivate): synchronous
deactivate_kill_switch ==
    /\ ks_triggers < MaxTriggers
    /\ last_op' = [op |-> "deactivate_kill_switch",
                  kind |-> IF kill_switch_active THEN "active" ELSE "inactive"]
    /\ IF kill_switch_active
       THEN /\ kill_switch_active' = FALSE
            /\ kill_switch_reason' = <<>>
            /\ daily_max_equity' = total_equity_usdt
            /\ UNCHANGED <<last_equity_check, current_exposure_usdt, total_equity_usdt>>
       ELSE UNCHANGED riskVars
    /\ UNCHANGED <<now, ticks, obsVars, restVars, ctrlVars>>

\* time passes
Tick ==
    /\ ticks < MaxTicks
    /\ ticks' = ticks + 1
    /\ now' = now + TickMinutes
    /\ last_op' = OtherStep
    /\ UNCHANGED <<riskVars, obsVars, restVars, ctrlVars>>

\* ------------------------------------------------------------------------
\* GridLogic.setup_grid, one step per await
\* ------------------------------------------------------------------------
\* the grid state other than last_recenter_time
gridState == <<center_price, buy_levels, sell_levels, active_orders, price_history>>

\* what no step of setup_grid touches
setupRest == <<now, ticks, riskVars, obsVars, instrVars, bot_task, active_profile, price_reads>>

\* bound: no operation that reads the price starts after this many reads
MaxPriceReads == 2

\* get_mark_price answers: 0 when the ticker could not be read
PriceResponses == {<<0, 1>>, <<100, 1>>}

\* setup_grid stays in its frame and suspends at await `label`
SetupGoto(t, label) ==
    /\ Goto(t, label)
    /\ UNCHANGED last_recenter_time

\* the two placement loops from the levels `todo` of loop `side` on: the next
\* place_order call is made, or past both loops the grid is saved
PlaceNext(t, side, todo) ==
    LET list == IF todo # <<>> THEN todo
                ELSE IF side = "Buy" THEN sell_levels ELSE <<>>
        phase == IF todo # <<>> THEN side ELSE "Sell"
    IN  /\ IF list = <<>>
           THEN /\ pc' = [pc EXCEPT ![t] = "sg_save"]
                /\ loc' = [loc EXCEPT ![t].side = "-", ![t].todo = <<>>]
                /\ UNCHANGED place_calls
           ELSE /\ pc' = [pc EXCEPT ![t] = "sg_place"]
                /\ loc' = [loc EXCEPT ![t].side = phase, ![t].todo = list,
                                       ![t].attempt = 0]
                /\ place_calls' = place_calls + 1
        /\ UNCHANGED <<ret, running, last_recenter_time>>

\* resumed from get_current_price: a price <= 0 fails the setup, any other
\* is recorded and becomes the center
sg_price(t, price) ==
    /\ Resumes(t, "sg_price")
    /\   IF RLe(price, RInt(0))
         THEN /\ UNCHANGED gridState
              /\ AfterSetup(t, FALSE)
         ELSE /\ price_history' = HistoryAppend(price)
              /\ center_price' = price
              /\ UNCHANGED <<buy_levels, sell_levels, active_orders>>
              /\ SetupGoto(t, "sg_balance")
    /\ last_op' = OtherStep
    /\ UNCHANGED <<setupRest, exVars>>

\* mutant: the levels are stored and tracked as placed in one step
sg_levels_Atomic(t, g) ==
    /\ last_op' = [op |-> "calculate_grid_levels", kind |-> "-"]
    /\ UNCHANGED <<center_price, price_history>>
    /\ IF g.raised
       THEN /\ UNCHANGED <<buy_levels, sell_levels, active_orders>>
            /\ AfterSetup(t, FALSE)
       ELSE /\ buy_levels' = g.buy
            /\ sell_levels' = g.sell
            /\ active_orders' = g.buy \o g.sell
            /\ IF g.buy = <<>> \/ g.sell = <<>>
               THEN AfterSetup(t, FALSE)
               ELSE SetupGoto(t, "sg_cancel")

\* setup_grid with the result g of calculate_grid_levels: the levels are
\* stored; without levels on both sides the setup fails before any order is
\* cancelled
sg_levels(t, g) ==
    /\ last_op' = [op |-> "calculate_grid_levels", kind |-> "-"]
    /\ UNCHANGED <<center_price, active_orders, price_history>>
    /\ IF g.raised
       THEN /\ UNCHANGED <<buy_levels, sell_levels>>
            /\ AfterSetup(t, FALSE)
       ELSE /\ buy_levels' = g.buy
            /\ sell_levels' = g.sell
            /\ IF g.buy = <<>> \/ g.sell = <<>>
               THEN AfterSetup(t, FALSE)
               ELSE SetupGoto(t, "sg_cancel")

\* resumed from get_coin_balance: the levels are computed from the
\* configured capital
sg_balance(t, kind) ==
    /\ Resumes(t, "sg_balance")
    /\   IF kind = "raise"
         THEN /\ last_op' = OtherStep
              /\ UNCHANGED gridState
              /\ AfterSetup(t, FALSE)
         ELSE sg_levels(t, calculate_grid_levels(center_price, loc[t].profile,
                                                 initial_capital))
    /\ UNCHANGED <<setupRest, exVars>>

\* resumed from cancel_all_orders
sg_cancel(t, kind) ==
    /\ Resumes(t, "sg_cancel")
    /\   /\ ex_orders' = IF kind = "ok" THEN {} ELSE ex_orders
         /\ IF kind = "raise" THEN AfterSetup(t, FALSE) ELSE SetupGoto(t, "sg_sleep")
    /\ last_op' = OtherStep
    /\ UNCHANGED <<setupRest, gridState, ex_next_id, place_calls>>

\* resumed from sleep(1): the BUY loop starts
sg_sleep(t) ==
    /\ pc[t] = "sg_sleep"
    /\ PlaceNext(t, "Buy", buy_levels)
    /\ last_op' = OtherStep
    /\ UNCHANGED <<setupRest, gridState, ex_orders, ex_next_id>>

\* resumed from place_order for the level at the head of the loop: an
\* accepted order is tracked and saved, a rejected one skipped, an exception
\* caught and the loop goes on to the next level
sg_place(t, kind) ==
    /\ Resumes(t, "sg_place")
    /\ LET level == Head(loc[t].todo)
       IN    CASE kind = "ok" ->
                    /\ ex_orders' = ex_orders \cup
                         {[id |-> ex_next_id, side |-> level.side,
                           price |-> level.price, qty |-> level.qty]}
                    /\ ex_next_id' = ex_next_id + 1
                    /\ active_orders' =
                         [id \in DOMAIN active_orders \cup {ex_next_id} |->
                            IF id = ex_next_id THEN level ELSE active_orders[id]]
                    /\ UNCHANGED place_calls
                    /\ SetupGoto(t, "sg_pause")
               [] kind = "error" ->
                    /\ UNCHANGED <<exVars, active_orders>>
                    /\ SetupGoto(t, "sg_pause")
               [] kind = "raise" ->
                    /\ UNCHANGED <<ex_orders, ex_next_id, active_orders>>
                    /\ PlaceNext(t, loc[t].side, Tail(loc[t].todo))
    /\ last_op' = OtherStep
    /\ UNCHANGED <<setupRest, center_price, buy_levels, sell_levels, price_history>>

\* retry_count, the default every caller of _request uses
RetryCount == 3

\* the seconds slept after failed attempt number `attempt` (from 0)
Backoff(resp, attempt) == IF resp = "api_error" THEN 1 ELSE 2 ^ attempt

\* what an attempt of place_order's _request that is retried met, and
\* whether the exchange had accepted the order: a rate-limit or error answer
\* means it had not; a timeout or a connection error can hide an acceptance
RetriedPlacements ==
    {[resp |-> r, accepted |-> a] :
        r \in {"rate_limit", "api_error", "timeout", "exception"}, a \in BOOLEAN} \
    {[resp |-> r, accepted |-> TRUE] : r \in {"rate_limit", "api_error"}}

\* the attempt of place_order's POST in flight fails and _request sleeps
\* before sending the same parameters again (no orderLinkId among them)
sg_place_retry(t, met) ==
    /\ pc[t] = "sg_place"
    /\ met.resp = "rate_limit" \/ loc[t].attempt < RetryCount - 1
    /\ loc[t].attempt < RetryCount
    /\ LET level == Head(loc[t].todo)
       IN  IF met.accepted
           THEN /\ ex_orders' = ex_orders \cup
                     {[id |-> ex_next_id, side |-> level.side,
                       price |-> level.price, qty |-> level.qty]}
                /\ ex_next_id' = ex_next_id + 1
           ELSE UNCHANGED <<ex_orders, ex_next_id>>
    /\ pc' = [pc EXCEPT ![t] = "sg_place_sleep"]
    /\ loc' = [loc EXCEPT ![t].attempt = loc[t].attempt + 1]
    /\ last_op' = [op |-> "_request_sleep", kind |-> met.resp, task |-> t,
                   wait |-> Backoff(met.resp, loc[t].attempt)]
    /\ UNCHANGED <<now, ticks, riskVars, obsVars, instrVars, gridVars, botVars,
                   place_calls, price_reads, ret>>

\* _request's backoff sleep ends: the next attempt is sent, or past the
\* last attempt place_order returns the 'max_retries' error and the loop
\* pauses before its next level
sg_place_sleep(t) ==
    /\ pc[t] = "sg_place_sleep"
    /\ IF loc[t].attempt < RetryCount
       THEN /\ pc' = [pc EXCEPT ![t] = "sg_place"]
            /\ UNCHANGED <<loc, ret, running, last_recenter_time, place_calls>>
       ELSE /\ SetupGoto(t, "sg_pause")
            /\ UNCHANGED place_calls
    /\ last_op' = OtherStep
    /\ UNCHANGED <<setupRest, gridState, ex_orders, ex_next_id>>

\* resumed from the pause after a level (save_order, sleep(0.1))
sg_pause(t) ==
    /\ pc[t] = "sg_pause"
    /\ PlaceNext(t, loc[t].side, Tail(loc[t].todo))
    /\ last_op' = OtherStep
    /\ UNCHANGED <<setupRest, gridState, ex_orders, ex_next_id>>

\* resumed from save_grid_history and log_event: setup_grid returns True,
\* or False when one of them raised
sg_save(t, kind) ==
    /\ pc[t] = "sg_save"
    /\ AfterSetup(t, kind # "raise")
    /\ last_op' = [op |-> "setup_grid", kind |-> kind]
    /\ UNCHANGED <<setupRest, gridState, exVars>>

\* ------------------------------------------------------------------------
\* GridTradingBot.start_trading
\* ------------------------------------------------------------------------
\* POST /api/start (ui_server.start_bot) while not running: the task of
\* start_trading is created and kept in bot_task, and the handler returns;
\* the task takes its first step at a later turn of the event loop
start_bot(t) ==
    /\ pc[t] = "idle"
    /\ \A l \in LoopsOf(t) : pc[l] = "off"
    /\ ~ running
    /\ price_reads < MaxPriceReads
    /\ bot_task' = t
    /\ Goto(t, "created")
    /\ last_op' = OtherStep
    /\ UNCHANGED <<now, ticks, riskVars, obsVars, instrVars, gridVars, active_profile,
                   exVars, price_reads>>

\* the first step of the task: start_trading returns when the bot runs
\* already or the kill-switch is active, else it runs up to setup_grid's
\* first await
start_trading(t) ==
    /\ pc[t] = "created"
    /\ IF running \/ kill_switch_active
       THEN Finish(t) /\ UNCHANGED price_reads
       ELSE price_reads < MaxPriceReads /\ CallSetup(t, active_profile, "st")
    /\ last_op' = OtherStep
    /\ UNCHANGED <<now, ticks, riskVars, obsVars, instrVars, bot_task, gridVars,
                   active_profile, exVars>>

\* ------------------------------------------------------------------------
\* GridLogic.recenter_grid
\* ------------------------------------------------------------------------
\* resumed from cancel_all_orders (the sleep(2) follows)
rc_cancel(t, kind) ==
    /\ Resumes(t, "rc_cancel")
    /\   /\ ex_orders' = IF kind = "ok" THEN {} ELSE ex_orders
         /\ IF kind = "raise"
            THEN RecenterFailed(t)
            ELSE Goto(t, "rc_sleep") /\ UNCHANGED last_recenter_time
    /\ last_op' = OtherStep
    /\ UNCHANGED <<setupRest, gridState, ex_next_id, place_calls>>

\* resumed from sleep(2): the tracked orders are forgotten and setup_grid
\* is called
rc_sleep(t) ==
    /\ pc[t] = "rc_sleep"
    /\ active_orders' = <<>>
    /\ CallSetup(t, loc[t].profile, ret[t])
    /\ last_op' = OtherStep
    /\ UNCHANGED <<now, ticks, riskVars, obsVars, instrVars, bot_task, active_profile, exVars,
                   center_price, buy_levels, sell_levels, price_history,
                   last_recenter_time>>

\* ------------------------------------------------------------------------
\* GridTradingBot._monitor_grid and GridLogic.should_recenter
\* ------------------------------------------------------------------------
\* the loop test and the kill-switch test of an iteration; past both,
\* should_recenter is called and suspends at get_current_price
gm_top(t) ==
    /\ pc[t] = "loop_top"
    /\ IF ~ running
       THEN LoopExit(t) /\ UNCHANGED price_reads
       ELSE IF kill_switch_active
       THEN LoopSleep(t) /\ UNCHANGED price_reads
       ELSE /\ price_reads < MaxPriceReads
            /\ price_reads' = price_reads + 1
            /\ pc' = [pc EXCEPT ![t] = "sr_price"]
            /\ ret' = [ret EXCEPT ![t] = "gm"]
            /\ UNCHANGED <<loc, running>>
    /\ last_op' = OtherStep
    /\ UNCHANGED <<now, ticks, riskVars, obsVars, instrVars, bot_task, gridVars, active_profile,
                   exVars>>

\* should_recenter resumed from get_current_price
sr_price(t, price) ==
    /\ Resumes(t, "sr_price")
    /\   IF RLe(price, RInt(0))
         THEN /\ UNCHANGED price_history
              /\ LoopSleep(t)
         ELSE /\ price_history' = HistoryAppend(price)
              /\ pc' = [pc EXCEPT ![t] = "sr_orders"]
              /\ loc' = [loc EXCEPT ![t].price = price]
              /\ UNCHANGED <<ret, running>>
    /\ last_op' = OtherStep
    /\ UNCHANGED <<setupRest, exVars, center_price, buy_levels, sell_levels,
                   active_orders, last_recenter_time>>

\* the list get_open_orders returns: the book, or [] when the request failed
OpenOrders(kind) ==
    IF kind = "ok" THEN {[side |-> o.side, price |-> o.price] : o \in ex_orders} ELSE {}

\* the monitor with the decision r of should_recenter: on a trigger it goes
\* on to check_max_exposure
sr_decided(t, kind, r) ==
    /\ last_op' = [op |-> "should_recenter", kind |-> kind,
                   reason |-> r.reason, ref |-> r.ref]
    /\ IF r.trigger
       THEN /\ pc' = [pc EXCEPT ![t] = "cme_positions"]
            /\ loc' = [loc EXCEPT ![t].reason = r.reason]
            /\ UNCHANGED <<ret, running>>
       ELSE LoopSleep(t)

\* should_recenter resumed from get_open_orders
sr_orders(t, kind) ==
    /\ Resumes(t, "sr_orders")
    /\   IF kind = "raise"
         THEN /\ last_op' = OtherStep
              /\ LoopSleep(t)
         ELSE sr_decided(t, kind, should_recenter(loc[t].price, OpenOrders(kind)))
    /\ UNCHANGED <<setupRest, gridVars, exVars>>

\* ------------------------------------------------------------------------
\* GET /api/grid/levels (ui_server.get_grid_levels)
\* ------------------------------------------------------------------------
\* the request arrives: get_open_orders is awaited
get_grid_levels(t) ==
    /\ pc[t] = "idle"
    /\ price_reads < MaxPriceReads
    /\ Goto(t, "gl_orders")
    /\ last_op' = OtherStep
    /\ UNCHANGED <<now, ticks, riskVars, obsVars, restVars>>

\* resumed from get_open_orders: an exception is answered with status 500;
\* else get_current_price is called and suspends
gl_orders(t, kind) ==
    /\ pc[t] = "gl_orders"
    /\ IF kind = "raise"
       THEN Finish(t) /\ UNCHANGED price_reads
       ELSE Goto(t, "gl_price") /\ price_reads' = price_reads + 1
    /\ last_op' = OtherStep
    /\ UNCHANGED <<now, ticks, riskVars, obsVars, instrVars, bot_task, gridVars, active_profile,
                   exVars>>

\* resumed from get_current_price, which recorded a price above zero in the
\* history and returned 0.0 otherwise; the levels are answered either way
gl_price(t, price) ==
    /\ pc[t] = "gl_price"
    /\ price_history' = IF RLe(price, RInt(0)) THEN price_history ELSE HistoryAppend(price)
    /\ Finish(t)
    /\ last_op' = [op |-> "get_current_price",
                   kind |-> IF RLe(price, RInt(0)) THEN "error" ELSE "ok"]
    /\ UNCHANGED <<setupRest, exVars, center_price, buy_levels, sell_levels,
                   active_orders, last_recenter_time>>

\* ------------------------------------------------------------------------
\* GridTradingBot._monitor_risk, stop_trading, change_profile
\* ------------------------------------------------------------------------
\* the loop test; update_equity_tracking is called and suspends
rm_top(t) ==
    /\ pc[t] = "loop_top"
    /\ IF ~ running
       THEN LoopExit(t)
       ELSE /\ pc' = [pc EXCEPT ![t] = "uet_wallet"]
            /\ ret' = [ret EXCEPT ![t] = "rm_loop"]
            /\ UNCHANGED <<loc, running>>
    /\ last_op' = OtherStep
    /\ UNCHANGED <<now, ticks, riskVars, obsVars, restVars>>

\* POST /api/stop while running: stop_trading clears `running` and suspends
\* at cancel_all_orders
stop_trading(t) ==
    /\ pc[t] = "idle"
    /\ running
    /\ running' = FALSE
    /\ pc' = [pc EXCEPT ![t] = "stop_cancel"]
    /\ ret' = [ret EXCEPT ![t] = "api_stop"]
    /\ last_op' = OtherStep
    /\ UNCHANGED <<now, ticks, riskVars, obsVars, restVars, loc>>

\* `bot_task.cancel()` of the stop endpoint when bot_task is not done: the
\* latest start_trading task and, through its gather, the loops it created
Cancelled ==
    IF bot_task # "none" /\ pc[bot_task] # "idle"
    THEN {bot_task} \cup LoopsOf(bot_task)
    ELSE {}

\* stop_trading resumed from cancel_all_orders: the risk monitor sleeps;
\* shutdown goes on to close the client, or is left by the exception; the
\* stop endpoint cancels the task of start_trading wherever it is suspended
\* (in setup_grid or in the gather, and with it the loops), unless the call
\* raised
stop_cancel(t, kind) ==
    /\ Resumes(t, "stop_cancel")
    /\   /\ ex_orders' = IF kind = "ok" THEN {} ELSE ex_orders
         /\ IF ret[t] = "rm_stop"
            THEN IF kind = "raise"
                 THEN LoopError(t)
                 ELSE last_op' = OtherStep /\ LoopSleep(t)
            ELSE IF ret[t] = "sd_stop"
            THEN /\ last_op' = OtherStep
                 /\ Goto(t, IF kind = "raise" THEN "sd_raised" ELSE "sd_close")
            ELSE /\ last_op' = OtherStep
                 /\ IF kind = "raise" THEN Finish(t)
                    ELSE LET gone == Cancelled \cup {t}
                         IN  /\ pc' = [x \in Tasks |->
                                         IF x \in Cancelled \ {bot_task} THEN "off"
                                         ELSE IF x \in gone THEN "idle"
                                         ELSE pc[x]]
                             /\ ret' = [x \in Tasks |->
                                          IF x \in gone THEN "none" ELSE ret[x]]
                             /\ loc' = [x \in Tasks |->
                                          IF x \in gone THEN NoLocals ELSE loc[x]]
                             /\ UNCHANGED running
    /\ UNCHANGED <<now, ticks, riskVars, obsVars, instrVars, bot_task, gridVars, active_profile,
                   ex_next_id, place_calls, price_reads>>

\* GridTradingBot.shutdown: stop_trading is called only when `running`; then
\* the client is closed
shutdown(t) ==
    /\ pc[t] = "idle"
    /\ IF running
       THEN /\ running' = FALSE
            /\ pc' = [pc EXCEPT ![t] = "stop_cancel"]
            /\ ret' = [ret EXCEPT ![t] = "sd_stop"]
       ELSE /\ pc' = [pc EXCEPT ![t] = "sd_close"]
            /\ ret' = [ret EXCEPT ![t] = "sd_skip"]
            /\ UNCHANGED running
    /\ last_op' = OtherStep
    /\ UNCHANGED <<now, ticks, riskVars, obsVars, restVars, loc>>

\* shutdown resumed from client.close(): the session is closed, db.close()
\* is awaited. `arrived` are the tasks suspended in a gateway call whose
\* answer the closing session had already received
sd_close(t, arrived) ==
    /\ pc[t] = "sd_close"
    /\ \A x \in arrived : x # t /\ InFlight(x)
    /\ pc' = [x \in Tasks |-> IF x = t THEN "closed"
                              ELSE IF x \in arrived THEN Arrived[pc[x]]
                              ELSE pc[x]]
    /\ last_op' = OtherStep
    /\ UNCHANGED <<now, ticks, riskVars, obsVars, restVars, ret, loc, running>>

\* shutdown resumed from db.close() and returned to ui_server's
\* shutdown_event, which cancels bot_task when it is not done: the task of
\* start_trading ends where it is suspended, and with it the loops of its
\* gather
sd_db_close(t) ==
    /\ pc[t] = "closed"
    /\ pc' = [x \in Tasks |-> IF x = t THEN "down"
                              ELSE IF x \in Cancelled \ {bot_task} THEN "off"
                              ELSE IF x \in Cancelled THEN "idle"
                              ELSE pc[x]]
    /\ ret' = [x \in Tasks |-> IF x \in Cancelled THEN "none" ELSE ret[x]]
    /\ loc' = [x \in Tasks |-> IF x \in Cancelled THEN NoLocals ELSE loc[x]]
    /\ last_op' = OtherStep
    /\ UNCHANGED <<now, ticks, riskVars, obsVars, restVars, running>>

\* the gateway connection has been released
Closed == pc["sd"] \in {"closed", "down"}

\* the shutdown handler has returned: the server leaves the event loop
Down == pc["sd"] = "down"

\* mutant: the name is validated after the profile was switched
change_profile_LateCheck(t, profile_name) ==
    /\ pc[t] = "idle"
    /\ price_reads < MaxPriceReads
    /\ last_op' = [op |-> "change_profile", kind |-> profile_name]
    /\ active_profile' = profile_name
    /\ IF profile_name \notin ProfileNames
       THEN UNCHANGED <<pc, loc>>
       ELSE /\ loc' = [loc EXCEPT ![t].profile = profile_name]
            /\ pc' = [pc EXCEPT ![t] = "cp_save"]
    /\ UNCHANGED <<now, ticks, riskVars, obsVars, instrVars, bot_task, gridVars, exVars,
                   price_reads, ret, running>>

\* POST /api/profile/change: a name that is not a configured profile is
\* rejected (returns False); else the profile is switched and the
\* configuration saved
change_profile(t, profile_name) ==
    /\ pc[t] = "idle"
    /\ price_reads < MaxPriceReads
    /\ last_op' = [op |-> "change_profile", kind |-> profile_name]
    /\ IF profile_name \notin ProfileNames
       THEN UNCHANGED <<active_profile, pc, loc>>
       ELSE /\ active_profile' = profile_name
            /\ loc' = [loc EXCEPT ![t].profile = profile_name]
            /\ pc' = [pc EXCEPT ![t] = "cp_save"]
    /\ UNCHANGED <<now, ticks, riskVars, obsVars, instrVars, bot_task, gridVars, exVars,
                   price_reads, ret, running>>

\* change_profile resumed from _save_current_config: recenters when running;
\* an exception of db.save_config (which rolls back and raises again) leaves
\* change_profile with the profile switched and no recenter
cp_save(t, kind) ==
    /\ pc[t] = "cp_save"
    /\ IF kind # "raise" /\ running
       THEN CallRecenter(t, "profile_changed", loc[t].profile, "cp_rc")
       ELSE Finish(t)
    /\ last_op' = OtherStep
    /\ UNCHANGED <<now, ticks, riskVars, obsVars, restVars>>

\* ------------------------------------------------------------------------
\* setup_grid alone: start_trading on every instrument and configuration
\* ------------------------------------------------------------------------
TickSizes == {<<1, 100>>, <<1, 1>>, <<1000, 1>>}

QtySteps == {<<1, 10>>, <<1, 1000>>}

Capitals == {<<10, 1>>, <<11, 1>>, <<30, 1>>, <<40, 1>>}

\* a capital of exactly two minimum budgets, 13.2 = 2 x (6 x 1.1), where the
\* float product 6 * 1.1 lies above 6.6
EdgeNotional == <<6, 1>>

EdgeCapital == <<66, 5>>

InitSetup ==
    /\ RiskInit /\ GridInit
    /\ running = FALSE
    /\ bot_task = "none"
    /\ active_profile \in ProfileNames
    /\ ex_orders = {}
    /\ ex_next_id = 1
    /\ place_calls = 0
    /\ price_reads = 0
    /\ pc = [t \in Tasks |-> IF t \in AllLoops \cup SecondLoops THEN "off" ELSE "idle"]
    /\ ret = [t \in Tasks |-> "none"]
    /\ loc = [t \in Tasks |-> NoLocals]
    /\ tick_size \in TickSizes
    /\ qty_step \in QtySteps
    /\ min_order_qty \in {<<1, 1000>>, <<1, 10>>}
    /\ \/ min_notional = <<5, 1>> /\ initial_capital \in Capitals
       \/ min_notional = EdgeNotional /\ initial_capital = EdgeCapital

NextSetup ==
    \/ start_bot("st")
    \/ start_trading("st")
    \/ \E price \in PriceResponses : sg_price("st", price)
    \/ \E kind \in {"ok", "raise"} : sg_balance("st", kind)
    \/ \E kind \in GatewayKinds : sg_cancel("st", kind)
    \/ sg_sleep("st")
    \/ \E kind \in GatewayKinds : sg_place("st", kind)
    \/ sg_pause("st")
    \/ \E kind \in {"ok", "raise"} : sg_save("st", kind)

SpecSetup == InitSetup /\ [][NextSetup]_vars

\* the RiskManager under two concurrent metrics requests, the deactivation
\* endpoint and the clock
NextRisk ==
    \/ \E t \in UiTasks : get_risk_metrics(t)
    \/ \E t \in UiTasks, w \in WalletResponses : update_equity_tracking(t, w)
    \/ \E t \in UiTasks, kind \in GatewayKinds : ks_cancel(t, kind)
    \/ \E t \in UiTasks, kind \in StoreKinds : ks_log(t, kind)
    \/ \E t \in UiTasks, p \in PositionResponses : cme_positions(t, p)
    \/ \E t \in UiTasks, w \in WalletResponses : cme_wallet(t, w)
    \/ \E t \in UiTasks : cme_log(t)
    \/ \E t \in UiTasks : validate_order_size(t)
    \/ \E t \in UiTasks, w \in WalletResponses : vos_wallet(t, w)
    \/ deactivate_kill_switch
    \/ Tick

SpecRisk == InitBoot /\ [][NextRisk]_vars

\* ------------------------------------------------------------------------
\* GridTradingBot._monitor_orders and _take_snapshots: the two loops that
\* write only to the store
\* ------------------------------------------------------------------------
\* the most executions one get_executions answer lists
MaxFills == 2

\* _monitor_orders: the loop test and the kill-switch test; past both
\* get_executions is awaited
fm_top(t) ==
    /\ pc[t] = "loop_top"
    /\ IF ~ running
       THEN LoopExit(t)
       ELSE IF kill_switch_active
       THEN LoopSleep(t)
       ELSE Goto(t, "fm_exec")
    /\ last_op' = OtherStep
    /\ UNCHANGED <<now, ticks, riskVars, obsVars, restVars>>

\* _monitor_orders resumed from get_executions with n executions listed
\* (none when the request failed); an exception goes to the loop's boundary
fm_exec(t, kind, n) ==
    /\ pc[t] = "fm_exec"
    /\ IF kind = "raise"
       THEN LoopError(t)
       ELSE /\ last_op' = OtherStep
            /\ LET list == IF kind = "ok" THEN [i \in 1..n |-> i] ELSE <<>>
               IN  IF list = <<>>
                   THEN LoopSleep(t)
                   ELSE /\ pc' = [pc EXCEPT ![t] = "fm_save"]
                        /\ loc' = [loc EXCEPT ![t].todo = list]
                        /\ UNCHANGED <<ret, running>>
    /\ UNCHANGED <<now, ticks, riskVars, obsVars, restVars>>

\* _monitor_orders resumed from db.save_trade, which logs and swallows a
\* failed INSERT or commit; when its rollback fails too the exception
\* leaves the for loop for the loop's boundary
fm_save(t, kind) ==
    /\ pc[t] = "fm_save"
    /\ IF kind = "raise"
       THEN LoopError(t)
       ELSE last_op' = OtherStep /\ Goto(t, "fm_update")
    /\ UNCHANGED <<now, ticks, riskVars, obsVars, restVars>>

\* _monitor_orders resumed from db.update_order_status: the next execution,
\* or the sleep that ends the iteration; an exception of its rollback goes
\* to the loop's boundary
fm_update(t, kind) ==
    /\ pc[t] = "fm_update"
    /\ IF kind = "raise"
       THEN LoopError(t)
       ELSE /\ last_op' = OtherStep
            /\ IF Tail(loc[t].todo) = <<>>
               THEN LoopSleep(t)
               ELSE /\ pc' = [pc EXCEPT ![t] = "fm_save"]
                    /\ loc' = [loc EXCEPT ![t].todo = Tail(loc[t].todo)]
                    /\ UNCHANGED <<ret, running>>
    /\ UNCHANGED <<now, ticks, riskVars, obsVars, restVars>>

\* _take_snapshots: the loop test; get_wallet_balance is awaited
ss_top(t) ==
    /\ pc[t] = "loop_top"
    /\ IF ~ running THEN LoopExit(t) ELSE Goto(t, "ss_wallet")
    /\ last_op' = OtherStep
    /\ UNCHANGED <<now, ticks, riskVars, obsVars, restVars>>

\* _take_snapshots resumed from get_wallet_balance: the answer, or the safe
\* defaults of a failed request, is a non-empty dictionary
ss_wallet(t, kind) ==
    /\ pc[t] = "ss_wallet"
    /\ IF kind = "raise"
       THEN LoopError(t)
       ELSE last_op' = OtherStep /\ Goto(t, "ss_positions")
    /\ UNCHANGED <<now, ticks, riskVars, obsVars, restVars>>

\* _take_snapshots resumed from get_positions
ss_positions(t, kind) ==
    /\ pc[t] = "ss_positions"
    /\ IF kind = "raise"
       THEN LoopError(t)
       ELSE last_op' = OtherStep /\ Goto(t, "ss_save")
    /\ UNCHANGED <<now, ticks, riskVars, obsVars, restVars>>

\* _take_snapshots resumed from db.save_equity_snapshot, which logs and
\* swallows a failed INSERT or commit; when its rollback fails too the
\* exception skips calculate_and_save_pnl for the loop's boundary
ss_save(t, kind) ==
    /\ pc[t] = "ss_save"
    /\ IF kind = "raise"
       THEN LoopError(t)
       ELSE last_op' = OtherStep /\ Goto(t, "ss_pnl")
    /\ UNCHANGED <<now, ticks, riskVars, obsVars, restVars>>

\* _take_snapshots resumed from db.calculate_and_save_pnl: the iteration
\* ends with the sleep, or at the loop's boundary when its rollback raised
ss_pnl(t, kind) ==
    /\ pc[t] = "ss_pnl"
    /\ IF kind = "raise" THEN LoopError(t) ELSE last_op' = OtherStep /\ LoopSleep(t)
    /\ UNCHANGED <<now, ticks, riskVars, obsVars, restVars>>

\* ------------------------------------------------------------------------
\* The bot: start, the grid and risk monitors, profile changes, stop, the
\* kill-switch endpoint and the clock
\* ------------------------------------------------------------------------
\* the two store loops in the specifications of the whole bot: they take
\* the step that ends them; their iterations, which change nothing but their
\* own position, run in SpecLoops
NextStoreLeave ==
    \/ ~ running /\ fm_top("fm")
    \/ ~ running /\ ss_top("ss")

\* the answers the bot's runs draw from
BotKinds == {"ok", "error"}

\* cancel_all_orders and place_order succeed in them
BotCancelKinds == {"ok"}

BotPlaceKinds == {"ok"}

\* and the store persists every event
BotStoreKinds == {"ok"}

\* the profile POST /api/profile/change asks for
BotProfiles == {"Aggressive"}

BotWallets == {w \in WalletResponses : w.kind = "ok" /\ w.equity \in {950, 1000}}

BotPositions == {p \in PositionResponses : p.kind = "ok"}

BotTasks == Loops \cup {"st", "cp", "sp"}

\* setup_grid and recenter_grid in whichever task runs them
NextGrid ==
    \/ \E t \in BotTasks, price \in BotPrices : sg_price(t, price)
    \/ \E t \in BotTasks : sg_balance(t, "ok")
    \/ \E t \in BotTasks, kind \in BotCancelKinds : sg_cancel(t, kind)
    \/ \E t \in BotTasks : sg_sleep(t)
    \/ \E t \in BotTasks, kind \in BotPlaceKinds : sg_place(t, kind)
    \/ \E t \in BotTasks : sg_pause(t)
    \/ \E t \in BotTasks : sg_save(t, "ok")
    \/ \E t \in BotTasks, kind \in BotCancelKinds : rc_cancel(t, kind)
    \/ \E t \in BotTasks : rc_sleep(t)

\* the grid monitor and the risk monitor
NextMonitors ==
    \/ gm_top("gm")
    \/ \E price \in BotPrices : sr_price("gm", price)
    \/ \E kind \in BotKinds : sr_orders("gm", kind)
    \/ rm_top("rm")
    \/ \E t \in Loops, w \in BotWallets : update_equity_tracking(t, w)
    \/ \E t \in Loops, kind \in BotCancelKinds : ks_cancel(t, kind)
    \/ \E t \in Loops, kind \in BotStoreKinds : ks_log(t, kind)
    \/ \E t \in Loops, p \in BotPositions : cme_positions(t, p)
    \/ \E t \in Loops, w \in BotWallets : cme_wallet(t, w)
    \/ \E t \in Loops : cme_log(t)

Next ==
    \/ start_bot("st")
    \/ start_trading("st")
    \/ NextGrid
    \/ NextMonitors
    \/ NextStoreLeave
    \/ stop_trading("sp")
    \/ \E t \in {"rm", "sp"}, kind \in {"ok", "raise"} : stop_cancel(t, kind)
    \/ deactivate_kill_switch

Spec == Init /\ [][Next]_vars

\* ------------------------------------------------------------------------
\* Profile changes alone, by valid and invalid names, before and after start
\* ------------------------------------------------------------------------
\* the names POST /api/profile/change is called with: "Turbo" is not among
\* the configured profiles
ProfileRequests == ProfileNames \cup {"Turbo"}

NextProfile ==
    \/ start_bot("st")
    \/ start_trading("st")
    \/ NextGrid
    \/ \E profile_name \in ProfileRequests : change_profile("cp", profile_name)
    \/ \E kind \in {"ok", "raise"} : cp_save("cp", kind)

SpecProfile == Init /\ [][NextProfile]_vars

\* ------------------------------------------------------------------------
\* The bot until the process shuts down: the tasks run on while shutdown
\* closes the connection and the store; no request is served after it
\* ------------------------------------------------------------------------
\* setup_grid and recenter_grid once client.close() has returned, in the
\* tasks whose request the close found in flight or that send one later: on
\* the closed session every attempt of _request raises and the last
\* re-raises, so each gateway call they are resumed from has raised
\* (get_current_price catches it and returns 0.0) and the exchange has
\* received nothing; their sleeps and the store go on as before
NextGridClosed ==
    \/ \E t \in BotTasks : InFlight(t) /\ sg_price(t, RInt(0))
    \/ \E t \in BotTasks : InFlight(t) /\ sg_balance(t, "raise")
    \/ \E t \in BotTasks : InFlight(t) /\ sg_cancel(t, "raise")
    \/ \E t \in BotTasks : sg_sleep(t)
    \/ \E t \in BotTasks : InFlight(t) /\ sg_place(t, "raise")
    \/ \E t \in BotTasks : sg_pause(t)
    \/ \E t \in BotTasks : sg_save(t, "ok")
    \/ \E t \in BotTasks : InFlight(t) /\ rc_cancel(t, "raise")
    \/ \E t \in BotTasks : rc_sleep(t)

\* the two monitors once client.close() has returned, likewise
NextMonitorsClosed ==
    \/ gm_top("gm")
    \/ InFlight("gm") /\ sr_price("gm", RInt(0))
    \/ InFlight("gm") /\ sr_orders("gm", "raise")
    \/ rm_top("rm")
    \/ \E t \in Loops :
          InFlight(t) /\ update_equity_tracking(t, [kind |-> "raise", equity |-> 0])
    \/ \E t \in Loops : InFlight(t) /\ ks_cancel(t, "raise")
    \/ \E t \in Loops, kind \in BotStoreKinds : ks_log(t, kind)
    \/ \E t \in Loops : InFlight(t) /\ cme_positions(t, [kind |-> "raise", value |-> 0])
    \/ \E t \in Loops : InFlight(t) /\ cme_wallet(t, [kind |-> "raise", equity |-> 0])
    \/ \E t \in Loops : cme_log(t)

\* a task resumed, after client.close() has returned, from a gateway call
\* whose answer had arrived before: it goes on with that answer, and the
\* model shows what the answer reports (an order accepted, the book
\* cancelled) at this step, as it does for every answer
NextArrived ==
    \/ \E t \in BotTasks, price \in BotPrices : HasArrived(t) /\ sg_price(t, price)
    \/ \E t \in BotTasks : HasArrived(t) /\ sg_balance(t, "ok")
    \/ \E t \in BotTasks, kind \in BotCancelKinds : HasArrived(t) /\ sg_cancel(t, kind)
    \/ \E t \in BotTasks, kind \in BotPlaceKinds : HasArrived(t) /\ sg_place(t, kind)
    \/ \E t \in BotTasks, kind \in BotCancelKinds : HasArrived(t) /\ rc_cancel(t, kind)
    \/ \E price \in BotPrices : HasArrived("gm") /\ sr_price("gm", price)
    \/ \E kind \in BotKinds : HasArrived("gm") /\ sr_orders("gm", kind)
    \/ \E t \in Loops, w \in BotWallets : HasArrived(t) /\ update_equity_tracking(t, w)
    \/ \E t \in Loops, kind \in BotCancelKinds : HasArrived(t) /\ ks_cancel(t, kind)
    \/ \E t \in Loops, p \in BotPositions : HasArrived(t) /\ cme_positions(t, p)
    \/ \E t \in Loops, w \in BotWallets : HasArrived(t) /\ cme_wallet(t, w)
    \/ HasArrived("rm") /\ stop_cancel("rm", "ok")

\* shutdown beside the tasks
NextShutdown ==
    \/ ~ Down /\ start_bot("st")
    \/ start_trading("st")
    \/ ~ Closed /\ NextGrid
    \/ ~ Closed /\ NextMonitors
    \/ Closed /\ NextGridClosed
    \/ Closed /\ NextMonitorsClosed
    \/ Closed /\ NextArrived
    \/ NextStoreLeave
    \/ shutdown("sd")
    \/ ~ Closed /\ \E t \in {"rm", "sd"} : stop_cancel(t, "ok")
    \/ \E t \in {"rm", "sd"} : InFlight(t) /\ stop_cancel(t, "raise")
    \/ \E arrived \in SUBSET (Loops \cup {"st"}) : sd_close("sd", arrived)
    \/ sd_db_close("sd")

SpecShutdown == Init /\ [][NextShutdown]_vars

\* ------------------------------------------------------------------------
\* The bot with profile changes, the kill-switch never cleared by hand
\* ------------------------------------------------------------------------
NextGate ==
    \/ start_bot("st")
    \/ start_trading("st")
    \/ NextGrid
    \/ NextMonitors
    \/ NextStoreLeave
    \/ \E kind \in BotCancelKinds : stop_cancel("rm", kind)
    \/ \E profile_name \in BotProfiles : change_profile("cp", profile_name)
    \/ \E kind \in {"ok", "raise"} : cp_save("cp", kind)

SpecGate == InitBoot /\ [][NextGate]_vars

\* ------------------------------------------------------------------------
\* The recenter decision alone: one round of the grid monitor over a grid
\* that start_trading placed at time 0
\* ------------------------------------------------------------------------
\* the grid of the Normal profile around 100 with capital for one level per
\* side, and the two orders placed for it
PlacedCenter == <<100, 1>>

PlacedBuy ==
    [level |-> -1, price |-> <<99, 1>>, qty |-> <<1, 10>>, side |-> "Buy",
     notional |-> Notional(<<1, 10>>, <<99, 1>>)]

PlacedSell ==
    [level |-> 1, price |-> <<101, 1>>, qty |-> <<1, 10>>, side |-> "Sell",
     notional |-> Notional(<<1, 10>>, <<101, 1>>)]

PlacedOrders ==
    {[id |-> 1, side |-> "Buy", price |-> PlacedBuy.price, qty |-> PlacedBuy.qty],
     [id |-> 2, side |-> "Sell", price |-> PlacedSell.price, qty |-> PlacedSell.qty]}

\* the grid of the Normal profile around 100 with capital for two levels per
\* side (22 USDT), and the four orders placed for it, buys first
PlacedBuy2 ==
    [level |-> -2, price |-> <<98, 1>>, qty |-> <<1, 10>>, side |-> "Buy",
     notional |-> Notional(<<1, 10>>, <<98, 1>>)]

PlacedSell2 ==
    [level |-> 2, price |-> <<102, 1>>, qty |-> <<1, 10>>, side |-> "Sell",
     notional |-> Notional(<<1, 10>>, <<102, 1>>)]

PlacedOrders2 ==
    {[id |-> 1, side |-> "Buy", price |-> PlacedBuy.price, qty |-> PlacedBuy.qty],
     [id |-> 2, side |-> "Buy", price |-> PlacedBuy2.price, qty |-> PlacedBuy2.qty],
     [id |-> 3, side |-> "Sell", price |-> PlacedSell.price, qty |-> PlacedSell.qty],
     [id |-> 4, side |-> "Sell", price |-> PlacedSell2.price, qty |-> PlacedSell2.qty]}

\* the grids a run starts from: the capital configured, the levels computed
\* and the orders placed for them
PlacedGrids ==
    {[capital |-> <<11, 1>>, buy |-> <<PlacedBuy>>, sell |-> <<PlacedSell>>,
      tracked |-> <<PlacedBuy, PlacedSell>>, orders |-> PlacedOrders],
     [capital |-> <<22, 1>>, buy |-> <<PlacedBuy, PlacedBuy2>>,
      sell |-> <<PlacedSell, PlacedSell2>>,
      tracked |-> <<PlacedBuy, PlacedBuy2, PlacedSell, PlacedSell2>>,
      orders |-> PlacedOrders2]}

\* the sample setup_grid appended when it placed the grid at time 0
SetupSample == [price |-> PlacedCenter, timestamp |-> 0]

\* the sample of the setup and, after a time without answers, 60 one-minute
\* samples up to time t, alternating between prices a and b
Samples(t, a, b) ==
    <<SetupSample>> \o
    [i \in 1..MinHistorySamples |->
        [price |-> IF i % 2 = 0 THEN a ELSE b, timestamp |-> t - MinHistorySamples + i]]

\* the histories drawn: the sample of the setup only; with an hour above the
\* center; an hour below it; an hour around it; an hour with a 6.9% range
Histories(t) ==
    {<<SetupSample>>,
     Samples(t, <<101, 1>>, <<101, 1>>),
     Samples(t, <<199, 2>>, <<199, 2>>),
     Samples(t, <<199, 2>>, <<201, 2>>),
     Samples(t, <<94, 1>>, <<201, 2>>)}

\* the bot has been running for 25 or 50 hours
Uptimes == {1500, 3000}

\* the running bot some time after start_trading placed grid g: some of the
\* orders have been filled, the monitors sleep
RunningOn(g) ==
    /\ tick_size = <<1, 100>>
    /\ qty_step = <<1, 10>>
    /\ min_order_qty = <<1, 10>>
    /\ min_notional = <<5, 1>>
    /\ initial_capital = g.capital
    /\ center_price = PlacedCenter
    /\ buy_levels = g.buy
    /\ sell_levels = g.sell
    /\ active_orders = g.tracked
    /\ last_recenter_time = 0
    /\ ex_orders \in SUBSET g.orders
    /\ ex_next_id = Len(g.tracked) + 1
    /\ place_calls = Len(g.tracked)

InitRecenter ==
    /\ now \in Uptimes
    /\ ticks = 0
    /\ kill_switch_active = FALSE
    /\ kill_switch_reason = <<>>
    /\ daily_max_equity = 1000
    /\ last_equity_check = now
    /\ current_exposure_usdt = 0
    /\ total_equity_usdt = 1000
    /\ ks_triggers = 0
    /\ ks_cancel_calls = 0
    /\ ks_events = 0
    /\ exposure_result = "none"
    /\ last_op = OtherStep
    /\ \E g \in PlacedGrids : RunningOn(g)
    /\ price_history \in Histories(now)
    /\ running = TRUE
    /\ bot_task = "st"
    /\ active_profile = "Normal"
    /\ price_reads = 1
    /\ pc = [t \in Tasks |-> IF t \in AllLoops THEN "loop_top"
                             ELSE IF t = "st" THEN "gather"
                             ELSE IF t \in SecondLoops THEN "off" ELSE "idle"]
    /\ ret = [t \in Tasks |-> "none"]
    /\ loc = [t \in Tasks |-> NoLocals]

NextRecenter ==
    \/ gm_top("gm")
    \/ \E price \in RecenterPrices : sr_price("gm", price)
    \/ \E kind \in GatewayKinds : sr_orders("gm", kind)
    \/ \E p \in BotPositions : cme_positions("gm", p)
    \/ \E w \in BotWallets : cme_wallet("gm", w)
    \/ cme_log("gm")
    \/ \E kind \in GatewayKinds : rc_cancel("gm", kind)
    \/ rc_sleep("gm")
    \/ \E price \in PriceResponses : sg_price("gm", price)
    \/ \E kind \in {"ok", "raise"} : sg_balance("gm", kind)
    \/ \E kind \in GatewayKinds : sg_cancel("gm", kind)
    \/ sg_sleep("gm")
    \/ \E kind \in BotPlaceKinds : sg_place("gm", kind)
    \/ sg_pause("gm")
    \/ \E kind \in {"ok", "raise"} : sg_save("gm", kind)

SpecRecenter == InitRecenter /\ [][NextRecenter]_vars

\* ------------------------------------------------------------------------
\* Recovery: the grid monitor inside a recenter_grid whose rebuild may fail
\* once, then the monitor's next cycles with the gateway responding, under
\* weak fairness of the monitor's coroutine
\* ------------------------------------------------------------------------
\* the gateway fails only during the first rebuild (the reads are counted
\* from the recenter on)
FirstAttempt == price_reads <= 1

\* 50 hours after start the monitor read the price, found the book empty or
\* the time threshold reached, passed the exposure gate and called
\* recenter_grid, which is suspended at cancel_all_orders
InitRecover ==
    /\ now = 3000
    /\ ticks = 0
    /\ kill_switch_active = FALSE
    /\ kill_switch_reason = <<>>
    /\ daily_max_equity = 1000
    /\ last_equity_check = now
    /\ current_exposure_usdt = 0
    /\ total_equity_usdt = 1000
    /\ ks_triggers = 0
    /\ ks_cancel_calls = 0
    /\ ks_events = 0
    /\ exposure_result = "ok"
    /\ last_op = OtherStep
    /\ \E g \in PlacedGrids : RunningOn(g)
    /\ \/ ex_orders = {}
       \/ /\ \E o \in ex_orders : o.side = "Buy"
          /\ \E o \in ex_orders : o.side = "Sell"
    /\ price_history = <<SetupSample, [price |-> PlacedCenter, timestamp |-> now]>>
    /\ running = TRUE
    /\ bot_task = "st"
    /\ active_profile = "Normal"
    /\ price_reads = 0
    /\ pc = [t \in Tasks |-> IF t = "gm" THEN "rc_cancel"
                             ELSE IF t \in AllLoops THEN "loop_top"
                             ELSE IF t = "st" THEN "gather"
                             ELSE IF t \in SecondLoops THEN "off" ELSE "idle"]
    /\ ret = [t \in Tasks |-> IF t = "gm" THEN "gm_rc" ELSE "none"]
    /\ loc = [t \in Tasks |->
                IF t = "gm"
                THEN [NoLocals EXCEPT !.profile = "Normal", !.price = PlacedCenter,
                                      !.reason = IF ex_orders = {} THEN "no_active_orders"
                                                 ELSE "time_based"]
                ELSE NoLocals]

NextRecover ==
    \/ gm_top("gm")
    \/ \E price \in BotPrices : sr_price("gm", price)
    \/ \E kind \in BotKinds : sr_orders("gm", kind)
    \/ \E p \in BotPositions : cme_positions("gm", p)
    \/ \E w \in BotWallets : cme_wallet("gm", w)
    \/ cme_log("gm")
    \/ \E kind \in BotCancelKinds : rc_cancel("gm", kind)
    \/ rc_sleep("gm")
    \/ \E price \in PriceResponses :
          (RLt(RInt(0), price) \/ FirstAttempt) /\ sg_price("gm", price)
    \/ \E kind \in {"ok", "raise"} :
          (kind = "ok" \/ FirstAttempt) /\ sg_balance("gm", kind)
    \/ \E kind \in {"ok", "raise"} :
          (kind = "ok" \/ FirstAttempt) /\ sg_cancel("gm", kind)
    \/ sg_sleep("gm")
    \/ \E kind \in BotPlaceKinds : sg_place("gm", kind)
    \/ sg_pause("gm")
    \/ sg_save("gm", "ok")

\* the awaits a monitoring coroutine can be suspended at
AwaitLabels ==
    {"sr_price", "sr_orders", "uet_wallet", "ks_cancel", "ks_log", "cme_positions",
     "cme_wallet", "cme_log", "rc_cancel", "rc_sleep", "sg_price", "sg_balance",
     "sg_cancel", "sg_sleep", "sg_place", "sg_pause", "sg_save", "stop_cancel",
     "fm_exec", "fm_save", "fm_update", "ss_wallet", "ss_positions", "ss_save",
     "ss_pnl"}

\* the event loop resumes task t from every await: each pending await
\* returns (an answer, an error result or an exception)
AwaitsReturn(t) == \A label \in AwaitLabels : []<>(pc[t] # label)

\* the bot with the risk monitor scheduled fairly: its sleeps end and its
\* awaits return
SpecRiskWatch == Spec /\ WF_vars(rm_top("rm")) /\ AwaitsReturn("rm")

\* the monitor's sleeps end and its awaits return
SpecRecover ==
    InitRecover /\ [][NextRecover]_vars /\ WF_vars(gm_top("gm")) /\ AwaitsReturn("gm")

\* ------------------------------------------------------------------------
\* The four loops start_trading gathers, on a running bot, with POST /api/stop
\* and the risk monitor's stop; the gateway raises in the store loops
\* ------------------------------------------------------------------------
\* start_trading placed the one-level grid at time 0, set `running` and
\* gathered the four loops; each is before its first loop test
InitLoops ==
    /\ now = 0
    /\ ticks = 0
    /\ kill_switch_active = FALSE
    /\ kill_switch_reason = <<>>
    /\ daily_max_equity = 0
    /\ last_equity_check = 0
    /\ current_exposure_usdt = 0
    /\ total_equity_usdt = 0
    /\ ks_triggers = 0
    /\ ks_cancel_calls = 0
    /\ ks_events = 0
    /\ exposure_result = "none"
    /\ last_op = OtherStep
    /\ \E g \in PlacedGrids : g.capital = <<11, 1>> /\ RunningOn(g) /\ ex_orders = g.orders
    /\ price_history = <<SetupSample>>
    /\ running = TRUE
    /\ bot_task = "st"
    /\ active_profile = "Normal"
    /\ price_reads = MaxPriceReads - 1
    /\ pc = [t \in Tasks |-> IF t \in AllLoops THEN "loop_top"
                             ELSE IF t = "st" THEN "gather"
                             ELSE IF t \in SecondLoops THEN "off" ELSE "idle"]
    /\ ret = [t \in Tasks |-> "none"]
    /\ loc = [t \in Tasks |-> NoLocals]

\* the fill monitor and the snapshot loop
NextStoreLoops ==
    \/ fm_top("fm")
    \/ \E kind \in GatewayKinds, n \in 0..MaxFills : fm_exec("fm", kind, n)
    \/ \E kind \in {"ok", "raise"} : fm_save("fm", kind)
    \/ \E kind \in {"ok", "raise"} : fm_update("fm", kind)
    \/ ss_top("ss")
    \/ \E kind \in GatewayKinds : ss_wallet("ss", kind)
    \/ \E kind \in GatewayKinds : ss_positions("ss", kind)
    \/ \E kind \in {"ok", "raise"} : ss_save("ss", kind)
    \/ \E kind \in {"ok", "raise"} : ss_pnl("ss", kind)

\* the grid monitor and the risk monitor on a flat account: equity 1000 or
\* 950, no position
LoopPositions == {p \in BotPositions : p.value = 0}

NextTradingLoops ==
    \/ gm_top("gm")
    \/ \E price \in BotPrices : sr_price("gm", price)
    \/ \E kind \in {"ok", "raise"} : sr_orders("gm", kind)
    \/ rm_top("rm")
    \/ \E w \in BotWallets : update_equity_tracking("rm", w)
    \/ \E kind \in BotCancelKinds : ks_cancel("rm", kind)
    \/ \E kind \in StoreKinds : ks_log("rm", kind)
    \/ \E t \in Loops, p \in LoopPositions : cme_positions(t, p)
    \/ \E t \in Loops, w \in BotWallets : w.equity = 1000 /\ cme_wallet(t, w)

NextLoops ==
    \/ NextGrid
    \/ NextTradingLoops
    \/ NextStoreLoops
    \/ stop_trading("sp")
    \/ \E t \in {"rm", "sp"}, kind \in {"ok", "raise"} : stop_cancel(t, kind)

\* every sleep of a loop ends
SleepsEnd ==
    /\ WF_vars(gm_top("gm"))
    /\ WF_vars(rm_top("rm"))
    /\ WF_vars(fm_top("fm"))
    /\ WF_vars(ss_top("ss"))

\* the four loops with their sleeps ending and their awaits returning
SpecLoops ==
    /\ InitLoops
    /\ [][NextLoops]_vars
    /\ SleepsEnd
    /\ \A l \in AllLoops : AwaitsReturn(l)

\* ------------------------------------------------------------------------
\* BybitClient._request: the attempts of one gateway request
\* ------------------------------------------------------------------------
\* the HTTP methods the gateway's calls pass
Methods == {"GET", "POST"}

\* what one attempt meets: retCode 0; one of the retCodes 10001, 110043,
\* 100028; retCode 10006 (rate limit); another retCode; asyncio.TimeoutError;
\* another exception of the session or of response.json()
HttpResponses == {"ok", "benign", "rate_limit", "api_error", "timeout", "exception"}

\* _request returns to its caller: the result, a dictionary with an 'error'
\* key, or an exception
RequestReturns(t, outcome, attempts) ==
    /\ last_op' = [op |-> "_request", kind |-> outcome, task |-> t, attempts |-> attempts]
    /\ Finish(t)

\* _request sleeps before its next attempt
RequestSleeps(t, resp) ==
    /\ last_op' = [op |-> "_request_sleep", kind |-> resp, task |-> t,
                   wait |-> Backoff(resp, loc[t].attempt)]
    /\ Goto(t, "rq_sleep")

\* a coroutine calls _request(method, ...): past _rate_limit, the first
\* attempt is sent
request(t, method) ==
    /\ pc[t] = "idle"
    /\ pc' = [pc EXCEPT ![t] = "rq_send"]
    /\ loc' = [loc EXCEPT ![t] = [NoLocals EXCEPT !.method = method, !.attempt = 0]]
    /\ last_op' = OtherStep
    /\ UNCHANGED <<now, ticks, riskVars, obsVars, restVars, ret, running>>

\* the attempt in flight meets `resp`
rq_send(t, resp) ==
    /\ pc[t] = "rq_send"
    /\ LET attempt == loc[t].attempt
           last == ~ (attempt < RetryCount - 1)
       IN  CASE resp = "ok" -> RequestReturns(t, "result", attempt + 1)
             [] resp = "benign" -> RequestReturns(t, "error", attempt + 1)
             [] resp = "rate_limit" -> RequestSleeps(t, resp)
             [] resp = "api_error" ->
                  IF last THEN RequestReturns(t, "error", attempt + 1)
                  ELSE RequestSleeps(t, resp)
             [] resp \in {"timeout", "exception"} ->
                  IF last THEN RequestReturns(t, "raise", attempt + 1)
                  ELSE RequestSleeps(t, resp)
    /\ UNCHANGED <<now, ticks, riskVars, obsVars, restVars>>

\* the backoff sleep ends: the next attempt of the for loop, or past the
\* loop the 'max_retries' error
rq_sleep(t) ==
    /\ pc[t] = "rq_sleep"
    /\ IF loc[t].attempt + 1 < RetryCount
       THEN /\ pc' = [pc EXCEPT ![t] = "rq_send"]
            /\ loc' = [loc EXCEPT ![t].attempt = loc[t].attempt + 1]
            /\ last_op' = OtherStep
            /\ UNCHANGED <<ret, running>>
       ELSE RequestReturns(t, "error", loc[t].attempt + 1)
    /\ UNCHANGED <<now, ticks, riskVars, obsVars, restVars>>

NextRequest ==
    \/ \E t \in ReqTasks, method \in Methods : request(t, method)
    \/ \E t \in ReqTasks, resp \in HttpResponses : rq_send(t, resp)
    \/ \E t \in ReqTasks : rq_sleep(t)

\* two coroutines calling the gateway over and over
SpecRequest == Init /\ [][NextRequest]_vars

\* ------------------------------------------------------------------------
\* The price history at its bound: the grid monitor's reads on a bot that has
\* sampled the price every minute for about twelve hours
\* ------------------------------------------------------------------------
\* one sample per minute from the setup at minute 0 to minute n, the price at
\* the center: the latest max_history_points of them
MinuteSamples(n) ==
    LET all == [i \in 1..(n + 1) |-> [price |-> PlacedCenter, timestamp |-> i - 1]]
    IN  IF n + 1 > max_history_points
        THEN SubSeq(all, n + 2 - max_history_points, n + 1)
        ELSE Tuple(all)

InitHistory ==
    /\ now \in (max_history_points - 2)..max_history_points
    /\ ticks = 0
    /\ kill_switch_active = FALSE
    /\ kill_switch_reason = <<>>
    /\ daily_max_equity = 1000
    /\ last_equity_check = now
    /\ current_exposure_usdt = 0
    /\ total_equity_usdt = 1000
    /\ ks_triggers = 0
    /\ ks_cancel_calls = 0
    /\ ks_events = 0
    /\ exposure_result = "none"
    /\ last_op = OtherStep
    /\ \E g \in PlacedGrids : g.capital = <<11, 1>> /\ RunningOn(g) /\ ex_orders = g.orders
    /\ price_history = MinuteSamples(now)
    /\ running = TRUE
    /\ bot_task = "st"
    /\ active_profile = "Normal"
    /\ price_reads = 0
    /\ pc = [t \in Tasks |-> IF t \in AllLoops THEN "loop_top"
                             ELSE IF t = "st" THEN "gather"
                             ELSE IF t \in SecondLoops THEN "off" ELSE "idle"]
    /\ ret = [t \in Tasks |-> "none"]
    /\ loc = [t \in Tasks |-> NoLocals]

NextHistory ==
    \/ gm_top("gm")
    \/ \E price \in HistoryPrices : sr_price("gm", price)
    \/ \E kind \in GatewayKinds : sr_orders("gm", kind)
    \/ \E p \in LoopPositions : cme_positions("gm", p)
    \/ \E w \in BotWallets : cme_wallet("gm", w)
    \/ \E kind \in BotCancelKinds : rc_cancel("gm", kind)
    \/ rc_sleep("gm")
    \/ \E price \in HistoryPrices : sg_price("gm", price)
    \/ sg_balance("gm", "ok")
    \/ \E kind \in BotCancelKinds : sg_cancel("gm", kind)
    \/ sg_sleep("gm")
    \/ \E kind \in BotPlaceKinds : sg_place("gm", kind)
    \/ sg_pause("gm")
    \/ sg_save("gm", "ok")
    \/ get_grid_levels("ui1")
    \/ \E kind \in GatewayKinds : gl_orders("ui1", kind)
    \/ \E price \in HistoryPrices : gl_price("ui1", price)

SpecHistory == InitHistory /\ [][NextHistory]_vars

\* ------------------------------------------------------------------------
\* RiskManager.check_order_as_maker
\* ------------------------------------------------------------------------
\* the best bid / ask prices a ticker can carry
Quotes == {<<99, 1>>, <<100, 1>>, <<101, 1>>}

\* what get_ticker answers: an exception, no ticker ({}), or a ticker whose
\* bid1Price and ask1Price are each present or missing (None or '')
TickerAnswers ==
    {[kind |-> "raise"], [kind |-> "empty"]} \cup
    {[kind |-> "ticker", has_bid |-> hb, bid |-> b, has_ask |-> ha, ask |-> a] :
        hb \in BOOLEAN, b \in Quotes, ha \in BOOLEAN, a \in Quotes}

\* safe_float(ticker.get(field, '0'), 0.0)
safe_float(present, value) == IF present THEN value ELSE <<0, 1>>

\* what check_order_as_maker returns for get_ticker's answer
MakerSafe(side, price, answer) ==
    IF answer.kind = "raise" THEN TRUE
    ELSE IF answer.kind = "empty" THEN FALSE
    ELSE LET best_bid == safe_float(answer.has_bid, answer.bid)
             best_ask == safe_float(answer.has_ask, answer.ask)
         IN  IF side = "Buy" THEN ~ RLe(best_ask, price)
             ELSE IF side = "Sell" THEN ~ RLe(price, best_bid)
             ELSE TRUE

\* a coroutine calls check_order_as_maker(side, price) and is suspended at
\* get_ticker
check_order_as_maker(t, side, price) ==
    /\ pc[t] = "idle"
    /\ pc' = [pc EXCEPT ![t] = "com_ticker"]
    /\ loc' = [loc EXCEPT ![t] = [NoLocals EXCEPT !.side = side, !.price = price]]
    /\ last_op' = OtherStep
    /\ UNCHANGED <<now, ticks, riskVars, obsVars, restVars, ret, running>>

\* resumed from get_ticker: the check returns
com_ticker(t, answer) ==
    /\ pc[t] = "com_ticker"
    /\ last_op' = [op |-> "check_order_as_maker", kind |-> answer.kind, task |-> t,
                   side |-> loc[t].side, price |-> loc[t].price, ticker |-> answer,
                   safe |-> MakerSafe(loc[t].side, loc[t].price, answer)]
    /\ Finish(t)
    /\ UNCHANGED <<now, ticks, riskVars, obsVars, restVars>>

NextMaker ==
    \/ \E t \in ReqTasks, side \in {"Buy", "Sell"}, price \in Quotes :
          check_order_as_maker(t, side, price)
    \/ \E t \in ReqTasks, answer \in TickerAnswers : com_ticker(t, answer)

SpecMaker == Init /\ [][NextMaker]_vars

\* ------------------------------------------------------------------------
\* one setup_grid with place_order's retries: start_trading on the default
\* instrument, the exchange cancelling everything it is asked to
\* ------------------------------------------------------------------------
NextPlace ==
    \/ start_bot("st")
    \/ start_trading("st")
    \/ sg_price("st", <<100, 1>>)
    \/ sg_balance("st", "ok")
    \/ sg_cancel("st", "ok")
    \/ sg_sleep("st")
    \/ \E kind \in GatewayKinds : sg_place("st", kind)
    \/ \E met \in RetriedPlacements : sg_place_retry("st", met)
    \/ sg_place_sleep("st")
    \/ sg_pause("st")
    \/ sg_save("st", "ok")

SpecPlace == Init /\ [][NextPlace]_vars

\* ------------------------------------------------------------------------
\* format_price / format_quantity on their own: every value and step of a
\* bounded set of decimals, each result formatted once more
\* ------------------------------------------------------------------------
MaxFormatValue == 60

\* the values 0.00, 0.05, ..., 3.00
FormatValues == {Rat(5 * n, 100) : n \in 0..MaxFormatValue}

FormatSteps == {<<1, 10>>, <<1, 100>>, <<1, 2>>}

FormatOp(name, kind, value, step, out) ==
    [op |-> name, kind |-> kind, value |-> value, step |-> step, out |-> out]

InitFormat ==
    /\ RiskInit /\ GridInit /\ BotInit /\ FirstBoot
    /\ tick_size \in FormatSteps
    /\ qty_step \in FormatSteps
    /\ min_order_qty = <<1, 10>>
    /\ min_notional = <<5, 1>>
    /\ initial_capital = <<11, 1>>

\* client.format_price(price, self.tick_size)
format_price_call(price) ==
    /\ last_op' = FormatOp("format_price", "value", price, tick_size,
                           format_price(price, tick_size))
    /\ UNCHANGED <<now, ticks, riskVars, obsVars, instrVars, gridVars, botVars,
                   exVars, price_reads, pc, ret, loc>>

\* client.format_quantity(qty, self.qty_step)
format_quantity_call(qty) ==
    /\ last_op' = FormatOp("format_quantity", "value", qty, qty_step,
                           format_quantity(qty, qty_step))
    /\ UNCHANGED <<now, ticks, riskVars, obsVars, instrVars, gridVars, botVars,
                   exVars, price_reads, pc, ret, loc>>

\* the value just formatted, read back with float() and formatted again
format_again ==
    /\ last_op.op \in {"format_price", "format_quantity"}
    /\ last_op.kind = "value"
    /\ last_op' = FormatOp(last_op.op, "formatted", last_op.out, last_op.step,
                           IF last_op.op = "format_price"
                           THEN format_price(last_op.out, last_op.step)
                           ELSE format_quantity(last_op.out, last_op.step))
    /\ UNCHANGED <<now, ticks, riskVars, obsVars, instrVars, gridVars, botVars,
                   exVars, price_reads, pc, ret, loc>>

NextFormat ==
    \/ \E price \in FormatValues : format_price_call(price)
    \/ \E qty \in FormatValues : format_quantity_call(qty)
    \/ format_again

SpecFormat == InitFormat /\ [][NextFormat]_vars

\* ========================================================================
\* Properties
\* ========================================================================
\* a step that ran update_equity_tracking's body with a wallet answer
UpdateObserved == last_op'.op = "update_equity_tracking" /\ last_op'.kind # "raise"

\* a step that ran deactivate_kill_switch on an active / inactive kill-switch
DeactivatedActive ==
    last_op'.op = "deactivate_kill_switch" /\ last_op'.kind = "active"

DeactivatedInactive ==
    last_op'.op = "deactivate_kill_switch" /\ last_op'.kind = "inactive"

\* tasks suspended at trigger_kill_switch's cancel_all_orders
AtKsCancel == {t \in Tasks : pc[t] = "ks_cancel"}

\* C3: after an update_equity_tracking that read the wallet, if the daily
\* maximum is positive and (dailyMax - equity) / dailyMax >= 5% (boundary
\* included) the kill-switch is active; if the drawdown is below the
\* threshold a Normal kill-switch stays Normal.
C3_DrawdownTriggers ==
    [][UpdateObserved =>
         LET reached ==
               /\ daily_max_equity' > 0
               /\ (daily_max_equity' - total_equity_usdt') * KillSwitchPctDen
                     >= KillSwitchPctNum * daily_max_equity'
         IN  /\ reached => kill_switch_active'
             /\ (~ reached /\ ~ kill_switch_active) => ~ kill_switch_active']_vars

\* the boundary case has happened: 950 observed under a maximum of 1000, and
\* the observing task is on its way to cancel_all_orders
C3_Witness ==
    /\ last_op.op = "update_equity_tracking"
    /\ daily_max_equity = 1000
    /\ total_equity_usdt = 950
    /\ kill_switch_active
    /\ AtKsCancel # {}

\* C4: a trigger attempt on an active kill-switch leaves killSwitchReason
\* unchanged and sends no task to cancel_all_orders, also when the attempts
\* of two tasks interleave; every Normal -> Triggered transition has exactly
\* one cancel_all_orders call of trigger_kill_switch (made, or about to be
\* made by the task suspended there).
C4_TriggerIdempotent ==
    /\ [](ks_cancel_calls + Cardinality(AtKsCancel) = ks_triggers)
    /\ [][(UpdateObserved /\ kill_switch_active) =>
            /\ kill_switch_reason' = kill_switch_reason
            /\ \A t \in Tasks : pc'[t] = "ks_cancel" => pc[t] = "ks_cancel"
            /\ ks_cancel_calls' = ks_cancel_calls]_vars

\* a second attempt has interleaved with the first: one task still waits for
\* its cancel_all_orders answer while another update saw the threshold
\* reached again
C4_Witness ==
    /\ kill_switch_active
    /\ Cardinality(AtKsCancel) = 1
    /\ last_op.op = "update_equity_tracking"
    /\ last_op.kind # "raise"
    /\ kill_switch_reason = [max |-> 1000, current |-> 950]
    /\ total_equity_usdt = 0

\* C5: deactivate_kill_switch on an inactive kill-switch changes none of
\* killSwitchActive, killSwitchReason, dailyMaxEquity, totalEquity,
\* currentExposure.
C5_DeactivateInactiveNoop ==
    [][DeactivatedInactive =>
         UNCHANGED <<kill_switch_active, kill_switch_reason, daily_max_equity,
                     total_equity_usdt, current_exposure_usdt>>]_vars

\* deactivation was called on a Normal kill-switch whose daily maximum
\* differs from the cached equity
C5_Witness ==
    /\ last_op.op = "deactivate_kill_switch"
    /\ last_op.kind = "inactive"
    /\ daily_max_equity > total_equity_usdt
    /\ total_equity_usdt > 0

\* C6: deactivate_kill_switch on an active kill-switch clears it and sets
\* dailyMaxEquity to totalEquity (the equity last read); only
\* update_equity_tracking and deactivate_kill_switch change dailyMaxEquity;
\* and an update_equity_tracking that reads an equity at or above
\* dailyMaxEquity does not trigger the kill-switch.
C6_DeactivateResetsMax ==
    [][/\ DeactivatedActive =>
            /\ ~ kill_switch_active'
            /\ daily_max_equity' = total_equity_usdt
       /\ daily_max_equity' # daily_max_equity =>
            (UpdateObserved \/ DeactivatedActive)
       /\ (UpdateObserved /\ ~ kill_switch_active
             /\ total_equity_usdt' >= daily_max_equity) =>
            ~ kill_switch_active']_vars

\* after a trigger and a deactivation at equity 950, an update read 950
\* again and the kill-switch stayed Normal
C6_Witness ==
    /\ last_op.op = "update_equity_tracking"
    /\ last_op.kind = "ok"
    /\ ks_triggers = 1
    /\ ~ kill_switch_active
    /\ daily_max_equity = 950
    /\ total_equity_usdt = 950
    /\ Date(last_equity_check) = 0

\* the first update_equity_tracking of a new UTC day
RolloverReset == UpdateObserved /\ Date(now) # Date(last_equity_check)

\* C7 as stated: dailyMaxEquity decreases only by the reset of a day
\* rollover.
C7_Original ==
    [][daily_max_equity' < daily_max_equity => RolloverReset]_vars

\* C7 amended: the first update_equity_tracking that reads the wallet after
\* a UTC-day rollover sets dailyMaxEquity to the equity read, and does so
\* once per rollover (it marks the day as checked, and only the clock
\* unmarks it); within a day dailyMaxEquity decreases only when
\* deactivate_kill_switch, on an active kill-switch, sets it to totalEquity.
C7_Amended ==
    [][/\ daily_max_equity' < daily_max_equity =>
            \/ RolloverReset
            \/ DeactivatedActive /\ daily_max_equity' = total_equity_usdt
       /\ RolloverReset =>
            /\ daily_max_equity' = total_equity_usdt'
            /\ Date(last_equity_check') = Date(now')
       /\ (UpdateObserved /\ ~ RolloverReset) =>
            /\ daily_max_equity' >= daily_max_equity
            /\ Date(last_equity_check') = Date(now')
       /\ (Date(last_equity_check) = Date(now)
             /\ Date(last_equity_check') # Date(now')) => now' # now]_vars

\* the reset of a rollover has happened: the day changed and an update of
\* the new day set the maximum to a lower equity than an earlier observation
C7_Witness ==
    /\ last_op.op = "update_equity_tracking"
    /\ Date(now) = 1
    /\ Date(last_equity_check) = 1
    /\ daily_max_equity = 950
    /\ total_equity_usdt = 950
    /\ ks_triggers = 0

\* the state right after setup_grid stored calculate_grid_levels' result
LevelsComputed == last_op.op = "calculate_grid_levels"

AllLevels == {buy_levels[i] : i \in 1..Len(buy_levels)}
                 \cup {sell_levels[i] : i \in 1..Len(sell_levels)}

\* C8: every level calculate_grid_levels returns has quantity x price >=
\* minNotional, every buy level a price strictly below the center and every
\* sell level a price strictly above it
C8_LevelsWellFormed ==
    LevelsComputed =>
        \A l \in AllLevels :
            /\ RLe(min_notional, RMul(l.qty, l.price))
            /\ l.side = "Buy" => RLt(l.price, center_price)
            /\ l.side = "Sell" => RLt(center_price, l.price)

\* C8, the part the code keeps: notional floor and buy side
C8_NotionalAndBuySide ==
    LevelsComputed =>
        \A l \in AllLevels :
            /\ RLe(min_notional, RMul(l.qty, l.price))
            /\ l.side = "Buy" => RLt(l.price, center_price)

\* a computed sell level whose price is the center price itself
C8_Witness ==
    /\ LevelsComputed
    /\ \E l \in AllLevels : l.side = "Sell" /\ l.price = center_price

\* availableCapital < 2 x minNotional x 1.1
InsufficientCapital ==
    RLt(initial_capital, RMul(RInt(2), RMul(min_notional, Rat(11, 10))))

\* C9: with availableCapital < 2 x minNotional x 1.1 calculate_grid_levels
\* returns two empty sequences for every center and profile, and the
\* setup_grid that computed them returns failure (start_trading returns with
\* running still false) with no order cancelled or placed
C9_InsufficientCapitalAborts ==
    /\ [](InsufficientCapital =>
            \A c \in PriceResponses \ {<<0, 1>>} : \A p \in ProfileNames :
                calculate_grid_levels(c, p, initial_capital)
                    = [buy |-> <<>>, sell |-> <<>>, raised |-> FALSE])
    /\ [][(InsufficientCapital /\ pc["st"] = "sg_balance" /\ LevelsComputed')
            => /\ buy_levels' = <<>> /\ sell_levels' = <<>>
               /\ pc'["st"] = "idle" /\ ~ running'
               /\ UNCHANGED exVars]_vars

C9_Witness ==
    /\ InsufficientCapital
    /\ LevelsComputed
    /\ pc["st"] = "idle"
    /\ buy_levels = <<>> /\ sell_levels = <<>>
    /\ Len(price_history) = 1

\* C1: the kill-switch flag goes from true to false only in a step of
\* deactivate_kill_switch; every other operation of the bot (equity updates
\* with any equity, exposure checks, recenters, stop, start) leaves it set
C1_KillSwitchLatch ==
    [][(kill_switch_active /\ ~ kill_switch_active') => DeactivatedActive]_vars

\* the kill-switch is still active after an equity update that saw the
\* equity back at the daily maximum, with the bot stopped
C1_Witness ==
    /\ kill_switch_active
    /\ last_op.op = "update_equity_tracking"
    /\ daily_max_equity > 0
    /\ total_equity_usdt = daily_max_equity
    /\ ks_triggers = 1

\* C2: no place_order call is made while the kill-switch is active
C2_NoPlacementWhileActive ==
    [][(place_calls' # place_calls) => ~ kill_switch_active]_vars

\* the recenter conditions as specified, for the price read and the live
\* order list
BuyPricesOf(orders) == {o.price : o \in {x \in orders : x.side = "Buy"}}

SellPricesOf(orders) == {o.price : o \in {x \in orders : x.side = "Sell"}}

BandHigh(price, orders) ==
    /\ SellPricesOf(orders) # {}
    /\ RLt(RMul(MaxOf(SellPricesOf(orders)), RAdd(RInt(1), price_deviation_pct)), price)

BandLow(price, orders) ==
    /\ BuyPricesOf(orders) # {}
    /\ RLt(price, RMul(MinOf(BuyPricesOf(orders)), RSub(RInt(1), price_deviation_pct)))

TimeReached == now - last_recenter_time >= time_based_hours * MinutesPerHour

\* the reason of the first satisfied condition in the priority order
\* no orders, band deviation, time, one-sided dominance, pump/dump
FirstSatisfied(price, orders) ==
    IF orders = {} THEN "no_active_orders"
    ELSE IF BandHigh(price, orders) THEN "deviation_high"
    ELSE IF BandLow(price, orders) THEN "deviation_low"
    ELSE IF TimeReached THEN "time_based"
    ELSE IF OneSideReason # "" THEN OneSideReason
    ELSE IF PumpDump THEN "pump_dump"
    ELSE ""

\* a step in which should_recenter came to a decision
Decided == pc["gm"] = "sr_orders" /\ last_op'.op = "should_recenter"

\* C10: should_recenter reports the reason of the first satisfied condition
\* in the priority order; in particular a price beyond the band with the time
\* threshold reached is reported as a band deviation
C10_FirstSatisfiedWins ==
    [][Decided =>
         last_op'.reason = FirstSatisfied(loc["gm"].price, OpenOrders(last_op'.kind))]_vars

\* C10 on the order lists the code takes to its conditions: empty, or with
\* both a buy and a sell
C10_PriorityOnTwoSidedBooks ==
    [][(Decided /\ LET orders == OpenOrders(last_op'.kind)
                   IN  orders = {} \/ (BuyPricesOf(orders) # {} /\ SellPricesOf(orders) # {}))
         => last_op'.reason = FirstSatisfied(loc["gm"].price, OpenOrders(last_op'.kind))]_vars

\* band and time both satisfied on a two-sided book: the band is reported
C10_Witness ==
    /\ last_op.op = "should_recenter"
    /\ last_op.reason = "deviation_high"
    /\ TimeReached
    /\ Cardinality(ex_orders) = 2

\* the price read and the order list returned in a should_recenter decision
DecidedPrice == loc["gm"].price

DecidedOrders == OpenOrders(last_op'.kind)

\* an order list the code takes to its conditions: empty, or with a buy and
\* a sell
EmptyOrTwoSided(orders) ==
    orders = {} \/ (BuyPricesOf(orders) # {} /\ SellPricesOf(orders) # {})

BandReasons == {"deviation_high", "deviation_low"}

\* what C11 asks of a decision: the band reason is reported iff the price is
\* strictly beyond the band of the extreme live orders, with that extreme
\* order's price as the reference
BandDecision(price, orders) ==
    /\ (last_op'.reason \in BandReasons)
          <=> (BandHigh(price, orders) \/ BandLow(price, orders))
    /\ last_op'.reason = "deviation_high" => last_op'.ref = MaxOf(SellPricesOf(orders))
    /\ last_op'.reason = "deviation_low" => last_op'.ref = MinOf(BuyPricesOf(orders))

\* C11: should_recenter triggers for band deviation iff currentPrice >
\* highestActiveSellPrice x (1 + deviationPct) or currentPrice <
\* lowestActiveBuyPrice x (1 - deviationPct), strictly, against the extreme
\* live orders (buys [98,99], sells [101,102], 2%: 104 does not trigger, 105
\* triggers with reference 102)
C11_BandDeviation ==
    [][Decided => BandDecision(DecidedPrice, DecidedOrders)]_vars

\* C11 on order lists that are empty or have both sides
C11_BandOnTwoSidedBooks ==
    [][(Decided /\ EmptyOrTwoSided(DecidedOrders))
         => BandDecision(DecidedPrice, DecidedOrders)]_vars

\* the scenario: all four orders live, 105 read, highest sell 102 reported
C11_Witness ==
    /\ last_op.op = "should_recenter"
    /\ last_op.reason = "deviation_high"
    /\ last_op.ref = <<102, 1>>
    /\ loc["gm"].price = <<105, 1>>
    /\ ex_orders = PlacedOrders2

\* the scenario's other half: all four orders live, 104 read within a day
\* of the last recenter, nothing reported
C11_NoTriggerWitness ==
    /\ last_op.op = "should_recenter"
    /\ last_op.reason = ""
    /\ ex_orders = PlacedOrders2
    /\ Len(price_history) = 2
    /\ price_history[2].price = <<104, 1>>

\* C12: a should_recenter evaluated with a positive price and a non-empty
\* live order set of any composition, with the time since lastRecenterTime
\* at or past timeBasedHours, returns trigger = true
C12_TimeBasedForcesRebuild ==
    [][(Decided /\ DecidedOrders # {} /\ TimeReached) => last_op'.reason # ""]_vars

\* C12 on order lists with both sides
C12_TimeOnTwoSidedBooks ==
    [][(Decided /\ DecidedOrders # {} /\ EmptyOrTwoSided(DecidedOrders) /\ TimeReached)
         => last_op'.reason # ""]_vars

\* time-based trigger reported: 50 hours, price inside the band
C12_Witness ==
    /\ last_op.op = "should_recenter"
    /\ last_op.reason = "time_based"
    /\ now - last_recenter_time = 3000
    /\ Cardinality(ex_orders) >= 2

\* the history samples inside the one-sided window, and those of them above
\* the center
WindowSamples ==
    {i \in 1..Len(price_history) :
        price_history[i].timestamp >= now - one_side_hours * MinutesPerHour}

AboveSamples == {i \in WindowSamples : RLt(center_price, price_history[i].price)}

\* the fraction above the center exceeds 0.8 or falls below 0.2
Dominance ==
    /\ WindowSamples # {}
    /\ \/ Cardinality(AboveSamples) * 10 > 8 * Cardinality(WindowSamples)
       \/ Cardinality(AboveSamples) * 10 < 2 * Cardinality(WindowSamples)

OneSideReasons == {"one_side_above", "one_side_below"}

\* what C13 asks of a decision on the list `orders`
OneSidedDecision(price, orders) ==
    /\ (/\ Len(price_history) >= MinHistorySamples
        /\ orders # {}
        /\ ~ BandHigh(price, orders) /\ ~ BandLow(price, orders)
        /\ ~ TimeReached
        /\ Dominance) => last_op'.reason \in OneSideReasons
    /\ Len(price_history) < MinHistorySamples
          => last_op'.reason \notin OneSideReasons \cup {"pump_dump"}

\* C13: with at least 60 history samples and no higher-priority condition
\* satisfied, should_recenter triggers if the fraction of the samples of the
\* last oneSideHours above centerPrice exceeds 0.8 or falls below 0.2; with
\* fewer than 60 samples neither the one-sided nor the pump/dump condition
\* fires
C13_OneSidedDominance ==
    [][Decided => OneSidedDecision(DecidedPrice, DecidedOrders)]_vars

\* C13 on order lists that are empty or have both sides
C13_OneSidedOnTwoSidedBooks ==
    [][(Decided /\ EmptyOrTwoSided(DecidedOrders))
         => OneSidedDecision(DecidedPrice, DecidedOrders)]_vars

\* an hour of samples above the center, 25 hours after the last recenter,
\* the price inside the band: the one-sided reason is reported
C13_Witness ==
    /\ last_op.op = "should_recenter"
    /\ last_op.reason = "one_side_above"
    /\ Len(price_history) > MinHistorySamples
    /\ now - last_recenter_time = 1500

\* a step in which task t's recenter_grid returns, and one in which it
\* returns success (setup_grid returned True)
RecenterReturns(t) == ret[t] \in {"gm_rc", "cp_rc"} /\ ret'[t] = "none"

RecenterSucceeds(t) ==
    RecenterReturns(t) /\ last_op'.op = "setup_grid" /\ last_op'.kind = "ok"

\* C14, first half: lastRecenterTime changes only in a step in which a
\* recenter_grid returns success
C14_TimeOnlyOnSuccess ==
    [][last_recenter_time' # last_recenter_time
         => \E t \in Tasks : RecenterSucceeds(t)]_vars

\* C14: recenter_grid changes lastRecenterTime only when the rebuild
\* succeeded; when it fails (price fetch fails, no valid levels, or an
\* exception) lastRecenterTime is unchanged and the exchange holds zero
\* resting orders
C14_FailedRecenter ==
    [][/\ last_recenter_time' # last_recenter_time
            => \E t \in Tasks : RecenterSucceeds(t)
       /\ \A t \in Tasks :
            (RecenterReturns(t) /\ ~ RecenterSucceeds(t))
                => /\ last_recenter_time' = last_recenter_time
                   /\ ex_orders' = {}]_vars

\* a recenter failed on its price fetch after cancelling: no resting order,
\* lastRecenterTime as it was
C14_Witness ==
    /\ pc["gm"] = "loop_top"
    /\ price_reads = 3
    /\ ex_orders = {}
    /\ active_orders = <<>>
    /\ last_recenter_time = 0
    /\ place_calls = ex_next_id - 1

\* a recenter that returned failure with the whole new ladder resting
C14_FailedWithLadder ==
    /\ last_op.op = "setup_grid"
    /\ last_op.kind = "raise"
    /\ pc["gm"] = "loop_top"
    /\ last_recenter_time = 0
    /\ Cardinality(ex_orders) >= 2

\* the first rebuild failed after recenter_grid cancelled the orders: the
\* monitor sleeps before its next cycle, the book is empty
FailedAfterCancel ==
    /\ pc["gm"] = "loop_top"
    /\ price_reads = 1
    /\ ex_orders = {}

\* the ladder rests on the exchange again and the recenter is stamped
Rebuilt ==
    /\ \E o \in ex_orders : o.side = "Buy"
    /\ \E o \in ex_orders : o.side = "Sell"
    /\ last_recenter_time = now
    /\ pc["gm"] = "loop_top"

\* the exposure gate refused the retry
ExposureRefused ==
    /\ price_reads >= 2
    /\ ~ ExposureWithinLimits(current_exposure_usdt, total_equity_usdt)

\* a step in which the grid monitor's check_max_exposure returns
GateReturns ==
    /\ pc["gm"] \in {"cme_positions", "cme_wallet", "cme_log"}
    /\ pc'["gm"] \notin {"cme_positions", "cme_wallet", "cme_log"}

\* C15 as stated: after a recenter that cancelled the orders and failed, the
\* next should_recenter reports "no active orders", recenter_grid is
\* attempted again and, the gateway responding, the ladder is eventually
\* rebuilt
C15_Original ==
    /\ [][(Decided /\ DecidedOrders = {}) => last_op'.reason = "no_active_orders"]_vars
    /\ [][(GateReturns /\ loc["gm"].reason = "no_active_orders")
            => pc'["gm"] = "rc_cancel"]_vars
    /\ (FailedAfterCancel ~> Rebuilt)

\* C15 amended: the next should_recenter that reads a price and the order
\* list reports "no active orders" and the monitor goes on to
\* check_max_exposure; recenter_grid is attempted again exactly when that
\* check returns true; with the gateway responding the ladder is eventually
\* rebuilt unless the exposure gate refuses the retry
C15_Amended ==
    /\ [][(Decided /\ DecidedOrders = {})
            => /\ last_op'.reason = "no_active_orders"
               /\ pc'["gm"] = "cme_positions"]_vars
    /\ [][(GateReturns /\ loc["gm"].reason = "no_active_orders")
            => (pc'["gm"] = "rc_cancel"
                  <=> ExposureWithinLimits(current_exposure_usdt', total_equity_usdt'))]_vars
    /\ (FailedAfterCancel ~> (Rebuilt \/ ExposureRefused))

\* the ladder rebuilt by the retry of a failed recenter
C15_Witness ==
    /\ Rebuilt
    /\ price_reads = 3
    /\ last_op.op = "setup_grid"

\* a step in which task t calls recenter_grid
RecenterStarts(t) == pc'[t] = "rc_cancel" /\ pc[t] # "rc_cancel"

\* the grid monitor's half of C16: it calls recenter_grid only in the step
\* in which its own check_max_exposure returns true
C16_GridMonitorGate ==
    [][RecenterStarts("gm")
         => /\ pc["gm"] \in {"cme_positions", "cme_wallet", "cme_log"}
            /\ exposure_result' = "ok"]_vars

\* C16: no recenter is started while the most recent check_max_exposure
\* result is "exceeded"; the grid monitor invokes recenter_grid only after
\* check_max_exposure returned true in the same iteration
C16_ExposureGate ==
    [][/\ \A t \in Tasks : RecenterStarts(t) => exposure_result' # "exceeded"
       /\ RecenterStarts("gm")
            => /\ pc["gm"] \in {"cme_positions", "cme_wallet", "cme_log"}
               /\ exposure_result' = "ok"]_vars

\* the grid monitor was refused by the gate and sleeps, no recenter started
C16_Witness ==
    /\ exposure_result = "exceeded"
    /\ pc["gm"] = "loop_top"
    /\ running
    /\ price_reads = 2
    /\ \A t \in Tasks : pc[t] # "rc_cancel"

\* a recenter of change_profile under way with the exposure exceeded
C16_UngatedRecenter ==
    /\ exposure_result = "exceeded"
    /\ pc["cp"] = "rc_cancel"

\* a step of task t inside check_max_exposure
CheckExposureStep(t) ==
    /\ pc[t] \in {"cme_positions", "cme_wallet", "cme_log"}
    /\ pc'[t] # pc[t]

\* C17: no step of check_max_exposure changes killSwitchActive,
\* killSwitchReason or dailyMaxEquity, whatever the exposure, on a breach
\* and on an error alike
C17_ExposureLeavesKillSwitch ==
    [][(\E t \in Tasks : CheckExposureStep(t))
         => UNCHANGED <<kill_switch_active, kill_switch_reason, daily_max_equity>>]_vars

\* a breach (600 on an equity of 1000) was reported with the kill-switch
\* Normal and the daily maximum in place
C17_Witness ==
    /\ exposure_result = "exceeded"
    /\ current_exposure_usdt = 600
    /\ total_equity_usdt = 1000
    /\ daily_max_equity = 1000
    /\ ~ kill_switch_active
    /\ kill_switch_reason = <<>>

\* a loop that has returned, or was cancelled with the task of start_trading
AllLoopsOff == \A l \in AllLoops : pc[l] = "off"

\* loop l is inside an iteration, suspended at an await
MidIteration(l) == pc[l] \notin {"loop_top", "off"}

\* C18 (safety half): a loop that passes its loop test while `running` is
\* false returns there; it starts no further iteration
C18_ExitAtNextCheck ==
    [][\A l \in AllLoops :
          (~ running /\ pc[l] = "loop_top" /\ pc'[l] # "loop_top") => pc'[l] = "off"]_vars

\* C18 (liveness half): with the sleeps ending and the pending awaits
\* returning, `running` false leads to all four loops having terminated
C18_LoopsTerminate == (~ running) ~> AllLoopsOff

\* C18: cooperative cancellation. Once `running` is false each of the four
\* loops finishes at most the iteration it is in and returns at its next
\* loop test, so all four loops eventually terminate
C18_CooperativeCancellation == C18_ExitAtNextCheck /\ C18_LoopsTerminate

\* C18 happens: the risk monitor's stop cleared `running` while the grid
\* monitor is inside an iteration, the fill monitor has already returned at
\* its test and start_trading's gather still waits
C18_Witness ==
    /\ ~ running
    /\ kill_switch_active
    /\ MidIteration("gm")
    /\ pc["fm"] = "off"
    /\ pc["ss"] = "loop_top"
    /\ pc["st"] = "gather"

\* the step on which an exception reached the error boundary of loop l
LoopFailed(l) == last_op' = LoopErrorOp(l)

\* C19 (the boundary): the step that takes an exception of loop l leaves l
\* sleeping before its next loop test, and leaves every other coroutine
\* and `running` as they were
C19_ErrorCaught ==
    [][\A l \in AllLoops :
          LoopFailed(l) => /\ pc'[l] = "loop_top"
                           /\ \A x \in Tasks \ {l} : pc'[x] = pc[x]
                           /\ running' = running]_vars

\* C19 (no termination): while `running` is true no step ends a loop or
\* returns from start_trading's gather
C19_NothingEndsWhileRunning ==
    [][running => /\ \A l \in AllLoops : pc[l] # "off" => pc'[l] # "off"
                  /\ pc["st"] = "gather" => pc'["st"] = "gather"]_vars

\* C19 (the retry): after its backoff the loop that failed runs its next
\* iteration, unless `running` was cleared or the kill-switch makes the
\* iteration a sleep
C19_NextIterationRuns ==
    \A l \in AllLoops :
        (last_op = LoopErrorOp(l)) ~> (MidIteration(l) \/ ~ running \/ kill_switch_active)

\* C19: failure isolation. An exception raised in an iteration of a loop is
\* caught at that loop's boundary, the loop sleeps its backoff and runs its
\* next iteration; it terminates neither that loop nor another loop nor the
\* gather of start_trading while `running` is true
C19_FailureIsolation ==
    C19_ErrorCaught /\ C19_NothingEndsWhileRunning /\ C19_NextIterationRuns

\* C19 happens: get_executions raised in the fill monitor while the bot runs
\* and the snapshot loop is inside an iteration; the fill monitor sleeps
C19_Witness ==
    /\ last_op = LoopErrorOp("fm")
    /\ running
    /\ ~ kill_switch_active
    /\ pc["fm"] = "loop_top"
    /\ MidIteration("ss")
    /\ pc["st"] = "gather"

\* C19 happens in the risk monitor too: its stop_trading raised from
\* cancel_all_orders after clearing `running`
C19_RiskMonitorWitness ==
    /\ last_op = LoopErrorOp("rm")
    /\ pc["rm"] = "loop_top"
    /\ ~ running

\* the step on which a call of _request leaves the function
RequestLeft == last_op'.op = "_request"

\* C20 (attempts): a request in flight is in one of retry_count attempts, and
\* a request that left _request made at most retry_count attempts
C20_AtMostRetryCount ==
    /\ \A t \in ReqTasks : pc[t] \in {"rq_send", "rq_sleep"} => loc[t].attempt < RetryCount
    /\ last_op.op = "_request" => last_op.attempts \in 1..RetryCount

\* C20 (API errors): a request that was answered with a retCode on its last
\* attempt returns a result carrying an error
C20_ApiErrorsReturn ==
    [][\A t \in ReqTasks :
          (pc[t] = "rq_sleep" /\ pc'[t] = "idle") => last_op'.kind = "error"]_vars

\* C20: gateway retry exhaustion. A request makes at most retry_count
\* attempts, and when every attempt failed (timeout, transport exception,
\* rate limit or another API error) it returns a result carrying an error:
\* no call of _request leaves it with an exception
C20_NeverRaises ==
    /\ C20_AtMostRetryCount
    /\ last_op.op = "_request" => last_op.kind # "raise"

\* C20 happens: a request returned after retry_count failed attempts
C20_Witness ==
    /\ last_op.op = "_request"
    /\ last_op.kind \in {"error", "raise"}
    /\ last_op.attempts = RetryCount

\* the third attempt's sleep after a rate limit is the longest backoff
C20_MaxRetriesWitness ==
    /\ last_op.op = "_request_sleep"
    /\ last_op.kind = "rate_limit"
    /\ last_op.wait = 2 ^ (RetryCount - 1)

\* stop_trading has cleared `running` and its cancel_all_orders is in flight
StopIssuedBy(t) == ~ running /\ pc[t] = "stop_cancel"

\* the kill-switch is active on a running bot
ActiveWhileRunning == kill_switch_active /\ running

\* the risk monitor's test after get_risk_metrics: the step that returns
\* from check_max_exposure and ends the iteration without stop_trading
MonitorSleepsAfterTest ==
    /\ ret["rm"] = "rm_grm"
    /\ pc["rm"] \in {"cme_positions", "cme_wallet", "cme_log"}
    /\ pc'["rm"] = "loop_top"

\* C21 (the test): the risk monitor ends an iteration without calling
\* stop_trading only if the kill-switch is inactive or `running` is false,
\* and it calls stop_trading only on an active kill-switch, clearing `running`
C21_StopOnKillSwitch ==
    /\ [][MonitorSleepsAfterTest => ~ ActiveWhileRunning]_vars
    /\ [][(pc["rm"] # "stop_cancel" /\ pc'["rm"] = "stop_cancel")
             => (ActiveWhileRunning /\ ~ running')]_vars

\* the risk monitor called stop_trading on the active kill-switch while the
\* grid monitor is still inside an iteration
C21_MonitorStopsWitness ==
    /\ kill_switch_active
    /\ StopIssuedBy("rm")
    /\ MidIteration("gm")

\* C21: the kill-switch active while `running` is true leads to trading shut
\* down (`running` false, whoever called stop_trading), the kill-switch
\* deactivated by hand being the one other way out
C21_TradingShutDown == ActiveWhileRunning ~> (~ running \/ ~ kill_switch_active)

\* C21 at work and never answered: the kill-switch is active on a running
\* bot whose start_trading task and four loops the stop endpoint has
\* cancelled, its handler returned; no risk monitor is left to stop trading
C21_Witness ==
    /\ ActiveWhileRunning
    /\ \A l \in Loops : pc[l] = "off"
    /\ pc["st"] = "idle"
    /\ pc["sp"] = "idle"

\* shutdown is past its stop_trading, about to close the connection or done
ShutdownClosing == pc["sd"] \in {"sd_close", "closed", "down"}

\* C22: every shutdown issues an explicit cancel-all-orders call, and the
\* call completes before the connection is closed. Here for the shutdowns
\* that find orders resting on the exchange: a shutdown closing the
\* connection has called stop_trading and its cancel-all has returned
C22_ShutdownCancels ==
    (ShutdownClosing /\ ex_orders # {}) => ret["sd"] = "sd_stop"

\* C22 (after the release): once client.close() has returned, nothing
\* reaches the exchange: no order is placed and none is cancelled, but for
\* what an answer that had arrived before tells the task it resumes
C22_ClosedServesNothing ==
    [][(Closed /\ \A t \in Tasks : HasArrived(t) => HasArrived(t)')
          => (ex_orders' = ex_orders /\ ex_next_id' = ex_next_id)]_vars

\* C22 (the order): a cancel-all that shutdown issued has returned before
\* the connection is closed
C22_CancelBeforeClose ==
    /\ [][pc["sd"] = "stop_cancel" => pc'["sd"] # "closed"]_vars
    /\ [][(~ Closed /\ Closed') => pc["sd"] = "sd_close"]_vars

\* C22 happens: shutdown called stop_trading, its cancel-all returned, and
\* the connection is closed with no order resting
C22_Witness ==
    /\ Closed
    /\ ret["sd"] = "sd_stop"
    /\ ex_orders = {}
    /\ place_calls > 0

\* a shutdown during start_trading's setup_grid closed the connection
\* without a cancel-all, the placed orders resting
C22_SkippedWitness ==
    /\ Closed
    /\ ret["sd"] = "sd_skip"
    /\ ex_orders # {}

\* the step on which change_profile was called with an invalid name
InvalidProfileCall ==
    last_op'.op = "change_profile" /\ last_op'.kind \notin ProfileNames

\* C23: change_profile with a name that is not a configured profile returns
\* failure before any mutation: active_profile, the Grid and the exchange
\* orders are unchanged, the configuration is not saved and no recenter is
\* started (the request is over)
C23_InvalidProfileRejected ==
    [][InvalidProfileCall =>
          /\ UNCHANGED <<active_profile, gridVars, exVars, instrVars, riskVars, running>>
          /\ UNCHANGED <<pc, ret, loc>>
          /\ pc'["cp"] = "idle"]_vars

\* C23 happens: an invalid name was refused on a running bot whose ladder
\* rests on the exchange
C23_Witness ==
    /\ last_op.op = "change_profile"
    /\ last_op.kind = "Turbo"
    /\ running
    /\ ex_orders # {}
    /\ active_profile = "Normal"

\* the last n entries of sequence h
LastEntries(h, n) == SubSeq(h, Len(h) - n + 1, Len(h))

\* get_current_price is awaited by should_recenter, by setup_grid or by the
\* get_grid_levels endpoint and returns on this step
PriceFetchReturns ==
    \E t \in Tasks : pc[t] \in {"sr_price", "sg_price", "gl_price"} /\ pc'[t] # pc[t]

\* the fetch that returns on this step failed or read a non-positive price:
\* its caller gives up (the monitor sleeps, setup_grid returns False) or,
\* in get_grid_levels, answers with a current price of 0.0
PriceFetchFailed ==
    \E t \in Tasks :
        \/ pc[t] = "sr_price" /\ pc'[t] = "loop_top"
        \/ pc[t] = "sg_price" /\ pc'[t] \notin {"sg_price", "sg_balance"}
        \/ pc[t] = "gl_price" /\ pc'[t] # pc[t] /\ last_op'.kind = "error"

\* C24 (the window): a step that changes priceHistory appends one entry
\* and keeps the most recent max_history_points entries of the result in
\* arrival order, so the entries evicted are the oldest
C24_AppendEvictsOldest ==
    [][price_history' # price_history =>
          LET arrived == Append(price_history, price_history'[Len(price_history')])
              kept == IF Len(arrived) > max_history_points
                      THEN max_history_points ELSE Len(arrived)
          IN  /\ price_history' # <<>>
              /\ PriceFetchReturns
              /\ price_history' = LastEntries(arrived, kept)]_vars

\* C24 (failures): a failed or non-positive price fetch appends nothing
C24_FailedFetchAppendsNothing ==
    [][PriceFetchFailed => UNCHANGED price_history]_vars

\* C24 (retention): a price fetch that succeeds leaves its sample as the
\* newest entry behind the most recent earlier ones, whether or not the
\* window was full
C24_NewestRetained ==
    [][PriceFetchReturns /\ ~ PriceFetchFailed =>
          LET arrived == Append(price_history, price_history'[Len(price_history')])
              kept == IF Len(arrived) > max_history_points
                      THEN max_history_points ELSE Len(arrived)
          IN  /\ price_history' # <<>>
              /\ price_history'[Len(price_history')].timestamp = now
              /\ price_history' = LastEntries(arrived, kept)]_vars

\* C24 (the bound): priceHistory never holds more than max_history_points
\* entries
C24_Bounded == [](Len(price_history) <= max_history_points)

\* C24: priceHistory is a bounded window. Its length never exceeds
\* max_history_points, past the bound the oldest entries are evicted and the
\* most recent ones retained in arrival order, and a failed or non-positive
\* price fetch appends nothing
C24_BoundedWindow ==
    /\ C24_Bounded /\ C24_AppendEvictsOldest /\ C24_FailedFetchAppendsNothing
    /\ C24_NewestRetained

\* C24 happens: the window is full, its two oldest samples (minutes 1 and 2)
\* are gone and the newest entry is a price just read
C24_Witness ==
    /\ Len(price_history) = max_history_points
    /\ price_history[1].timestamp = 3
    /\ price_history[max_history_points].price # PlacedCenter

\* ------------------------------------------------------------------------
\* C25: format_price and format_quantity are idempotent and floor: for every
\* non-negative value v and step s, format(format(v, s), s) = format(v, s),
\* and format(v, s) is a multiple of s with v - s < format(v, s) <= v
\* ------------------------------------------------------------------------
Formatted == last_op.op \in {"format_price", "format_quantity"}

MultipleOf(x, step) == RDiv(x, step)[2] = 1

\* C25, as stated: a formatted value formats to itself, and the result of
\* formatting v is the multiple of the step in (v - step, v]
C25_IdempotentFloor ==
    Formatted =>
        /\ last_op.kind = "formatted" => last_op.out = last_op.value
        /\ MultipleOf(last_op.out, last_op.step)
        /\ RLt(RSub(last_op.value, last_op.step), last_op.out)
        /\ RLe(last_op.out, last_op.value)

\* C25, the part the code keeps: the result is a multiple of the step, never
\* above the value and less than two steps below it
C25_NeverRoundsUp ==
    Formatted =>
        /\ MultipleOf(last_op.out, last_op.step)
        /\ RLe(last_op.out, last_op.value)
        /\ RLt(RSub(last_op.value, RAdd(last_op.step, last_op.step)), last_op.out)

\* a formatted value that formats to one step less
C25_Witness ==
    /\ Formatted
    /\ last_op.kind = "formatted"
    /\ last_op.out = RSub(last_op.value, last_op.step)

\* ------------------------------------------------------------------------
\* C26: order placement is never blindly re-submitted: within one setup_grid
\* run no level's place-order request is accepted by the exchange twice, so
\* a timeout on a placement the exchange had accepted cannot create two
\* resting orders for the same level
\* ------------------------------------------------------------------------
SameLevel(o1, o2) == o1.side = o2.side /\ o1.price = o2.price

\* C26, as stated: no two resting orders for the same level
C26_PlacedOnce ==
    \A o1 \in ex_orders, o2 \in ex_orders : SameLevel(o1, o2) => o1.id = o2.id

\* C26, the part the code keeps: a level is tracked under at most one order
\* id
C26_TrackedOnce ==
    \A id1 \in DOMAIN active_orders, id2 \in DOMAIN active_orders :
        active_orders[id1] = active_orders[id2] => id1 = id2

\* a setup_grid that returned success with two resting orders for one level,
\* one of them not in activeOrders
C26_Witness ==
    /\ last_op = [op |-> "setup_grid", kind |-> "ok"]
    /\ running
    /\ \E o1 \in ex_orders, o2 \in ex_orders :
          /\ SameLevel(o1, o2)
          /\ o1.id \in DOMAIN active_orders
          /\ o2.id \notin DOMAIN active_orders

\* ------------------------------------------------------------------------
\* C27: check_order_as_maker returns false whenever a buy price is at or
\* above the best ask or a sell price is at or below the best bid, and never
\* reports an order as safe when the best bid/ask needed for that comparison
\* is unavailable
\* ------------------------------------------------------------------------
MakerChecked == last_op.op = "check_order_as_maker"

\* the quote the comparison for this side needs is in get_ticker's answer
QuoteAvailable ==
    /\ last_op.kind = "ticker"
    /\ IF last_op.side = "Buy" THEN last_op.ticker.has_ask ELSE last_op.ticker.has_bid

\* the order would cross the spread
CrossesSpread ==
    IF last_op.side = "Buy" THEN RLe(last_op.ticker.ask, last_op.price)
    ELSE RLe(last_op.price, last_op.ticker.bid)

\* C27 (crossing): with the quote at hand a crossing order is reported
\* unsafe
C27_CrossingUnsafe ==
    MakerChecked /\ QuoteAvailable /\ CrossesSpread => ~ last_op.safe

\* C27 (unavailable): without the quote no order is reported safe
C27_UnavailableUnsafe ==
    MakerChecked /\ ~ QuoteAvailable => ~ last_op.safe

\* C27, as stated: both parts
C27_MakerCheck == C27_CrossingUnsafe /\ C27_UnavailableUnsafe

\* a sell order reported safe from a ticker without bid1Price
C27_Witness ==
    /\ MakerChecked
    /\ last_op.kind = "ticker"
    /\ last_op.side = "Sell"
    /\ ~ last_op.ticker.has_bid
    /\ last_op.safe

\* an order reported safe after get_ticker raised
C27_RaisedWitness ==
    /\ MakerChecked
    /\ last_op.kind = "raise"
    /\ last_op.safe

\* ------------------------------------------------------------------------
\* C28: recenter_grid performs its steps in this order: cancel-all on the
\* exchange, then clear activeOrders, then the settle delay, then the setup
\* sequence; activeOrders is already empty during the settle delay and no
\* order is placed before the cancel-all has been issued
\* ------------------------------------------------------------------------
InSettleDelay(t) == pc[t] = "rc_sleep"

\* C28 (the clear): activeOrders is empty during the settle delay
C28_ClearedDuringDelay ==
    [](\A t \in Tasks : InSettleDelay(t) => active_orders = <<>>)

\* C28 (the cancel): the step that resumes recenter_grid from its cancel-all
\* places nothing and leads to the settle delay or out of recenter_grid
C28_CancelFirst ==
    [][\A t \in Tasks :
          pc[t] = "rc_cancel" /\ pc'[t] # "rc_cancel" =>
              /\ place_calls' = place_calls
              /\ pc'[t] \in {"rc_sleep", ret[t], "idle", "loop_top", "off"}]_vars

\* C28 (the setup): the setup sequence starts when the settle delay ends
C28_SetupAfterDelay ==
    [][\A t \in Tasks :
          InSettleDelay(t) /\ ~ InSettleDelay(t)' /\ pc'[t] \notin {"idle", "off"} =>
              /\ pc'[t] = "sg_price"
              /\ place_calls' = place_calls]_vars

\* C28, as stated
C28_StepOrder == C28_CancelFirst /\ C28_ClearedDuringDelay /\ C28_SetupAfterDelay

\* C28, the order the code keeps: cancel-all, the settle delay, then the
\* clear in the step that starts the setup sequence
C28_ClearAfterDelay ==
    /\ C28_CancelFirst
    /\ C28_SetupAfterDelay
    /\ [][\A t \in Tasks :
            /\ pc[t] = "rc_cancel" /\ pc'[t] = "rc_sleep" => UNCHANGED active_orders
            /\ pc[t] = "rc_sleep" /\ pc'[t] = "sg_price" => active_orders' = <<>>]_vars

\* recenter_grid in its settle delay, the orders cancelled on the exchange
\* and still tracked in activeOrders
C28_Witness ==
    \E t \in Tasks :
        /\ InSettleDelay(t)
        /\ ex_orders = {}
        /\ active_orders # <<>>

\* ------------------------------------------------------------------------
\* C29: when setup_grid / recenter_grid reports success, every computed
\* level of the new ladder has been placed: each level in buyLevels and
\* sellLevels has exactly one entry in activeOrders and one resting order on
\* the exchange
\* ------------------------------------------------------------------------
\* setup_grid has just returned True
SetupSucceeded == last_op = [op |-> "setup_grid", kind |-> "ok"]

LadderLevels == {buy_levels[i] : i \in DOMAIN buy_levels}
                    \cup {sell_levels[i] : i \in DOMAIN sell_levels}

\* the ids activeOrders tracks the level under
TrackedIds(l) == {id \in DOMAIN active_orders : active_orders[id] = l}

\* the resting orders at the level's side and price
RestingAt(l) == {o \in ex_orders : o.side = l.side /\ o.price = l.price}

\* C29, as stated
C29_SuccessMeansPlaced ==
    SetupSucceeded =>
        \A l \in LadderLevels :
            /\ Cardinality(TrackedIds(l)) = 1
            /\ Cardinality(RestingAt(l)) = 1

\* C29, the part the code keeps: on success a ladder with levels on both
\* sides has been computed around a positive center
C29_LadderComputed ==
    SetupSucceeded =>
        /\ buy_levels # <<>> /\ sell_levels # <<>>
        /\ RLt(RInt(0), center_price)

\* setup_grid returned True, start_trading set running, and no level of the
\* ladder was placed
C29_Witness ==
    /\ SetupSucceeded
    /\ running
    /\ LadderLevels # {}
    /\ active_orders = <<>>
    /\ ex_orders = {}

\* ------------------------------------------------------------------------
\* C30: the grid is fully replaced, not merged, on every rebuild: after any
\* completed setup_grid or recenter_grid (stop followed by start and
\* recenters started by change_profile included) activeOrders contains only
\* order ids placed by that rebuild and buyLevels / sellLevels / centerPrice
\* are those of that rebuild; no entry from an earlier ladder survives
\* ------------------------------------------------------------------------
\* C30, as stated: every id tracked after a completed rebuild was placed by
\* it, so it maps a level of the ladder just computed, tracked under no
\* other id, and its order rests on the exchange unless it was cancelled
\* since
C30_FullyReplaced ==
    SetupSucceeded =>
        \A id \in DOMAIN active_orders :
            /\ active_orders[id] \in LadderLevels
            /\ TrackedIds(active_orders[id]) = {id}

\* C30, the part the code keeps: recenter_grid forgets every tracked order
\* in the step that starts its setup sequence
C30_RecenterClears ==
    [][\A t \in Tasks :
          pc[t] = "rc_sleep" /\ pc'[t] = "sg_price" => active_orders' = <<>>]_vars

\* a completed rebuild after which a level is tracked under two ids, one of
\* them left from the ladder before
C30_Witness ==
    /\ SetupSucceeded
    /\ running
    /\ \E l \in LadderLevels :
          /\ Cardinality(TrackedIds(l)) = 2
          /\ Cardinality(RestingAt(l)) = 1

\* ------------------------------------------------------------------------
\* C31: every Normal -> Triggered transition of the kill-switch issues a
\* cancel-all-orders call and persists a critical event record, including
\* when the cancel-all call fails
\* ------------------------------------------------------------------------
\* tasks suspended inside trigger_kill_switch
InTrigger == {t \in Tasks : pc[t] \in {"ks_cancel", "ks_log"}}

\* C31, as stated: once no task is inside trigger_kill_switch, every
\* Normal -> Triggered transition so far has had its cancel_all_orders call
\* and its kill_switch CRITICAL event, whatever the cancel call answered
C31_BothSideEffects ==
    [](InTrigger = {} =>
          /\ ks_cancel_calls = ks_triggers
          /\ ks_events = ks_triggers)

\* C31, the part the code keeps: the cancel call precedes the event record,
\* and no event is written without a transition
C31_CancelThenEvent ==
    /\ ks_events <= ks_cancel_calls
    /\ ks_cancel_calls <= ks_triggers

\* a transition whose cancel_all_orders raised: trigger_kill_switch has
\* returned with the call made and no event record
C31_Witness ==
    /\ InTrigger = {}
    /\ kill_switch_active
    /\ ks_triggers = 1
    /\ ks_cancel_calls = 1
    /\ ks_events = 0

\* ------------------------------------------------------------------------
\* C32: the cancel -> rebuild sequence of recenter_grid is not atomic: at
\* its suspension points other tasks run on a Grid whose centerPrice and
\* levels are replaced while activeOrders is empty or holds part of the new
\* ladder
\* ------------------------------------------------------------------------
\* task t is inside the setup_grid call of a recenter_grid
InRebuild(t) == ret[t] \in {"gm_rc", "cp_rc"} /\ pc[t] \in AwaitLabels

\* the number of orders tracked
Tracked == Cardinality(DOMAIN active_orders)

\* some other coroutine is suspended in the middle of its own work
OthersRun(t) == \E x \in Tasks \ {t} : pc[x] \in AwaitLabels

\* C32: the rebuild replaces the Grid one piece per step, each step ending
\* at an await: the step that forgets the tracked orders leaves center and
\* levels, the step that stores the center leaves levels and tracked orders,
\* the step that stores the levels leaves center and tracked orders and
\* suspends at cancel_all_orders, and no step tracks more than one new order
C32_RebuildInSteps ==
    [][/\ Tracked' <= Tracked + 1
       /\ \A t \in Tasks :
            /\ pc[t] = "rc_sleep" /\ pc'[t] = "sg_price" =>
                 /\ active_orders' = <<>>
                 /\ UNCHANGED <<center_price, buy_levels, sell_levels>>
            /\ pc[t] = "sg_price" /\ pc'[t] = "sg_balance" =>
                 UNCHANGED <<buy_levels, sell_levels, active_orders>>
            /\ (/\ pc[t] = "sg_balance"
                /\ pc'[t] # "sg_balance"
                /\ last_op'.op = "calculate_grid_levels") =>
                 /\ UNCHANGED <<center_price, active_orders>>
                 /\ buy_levels' # <<>> /\ sell_levels' # <<>> => pc'[t] = "sg_cancel"]_vars

\* a recenter_grid suspended in its placement loop with part of the ladder
\* it computed tracked, while another coroutine is in the middle of its work
C32_Witness ==
    \E t \in Tasks :
        /\ InRebuild(t)
        /\ pc[t] \in {"sg_place", "sg_pause"}
        /\ running
        /\ OthersRun(t)
        /\ Tracked > 0
        /\ Tracked < Len(buy_levels) + Len(sell_levels)
        /\ \A id \in DOMAIN active_orders :
              active_orders[id] \in {buy_levels[i] : i \in DOMAIN buy_levels}
                                     \cup {sell_levels[i] : i \in DOMAIN sell_levels}

\* a recenter_grid suspended with center and levels stored and no order
\* tracked, while another coroutine is in the middle of its work
C32_EmptyWitness ==
    \E t \in Tasks :
        /\ InRebuild(t)
        /\ pc[t] \in {"sg_cancel", "sg_sleep"}
        /\ running
        /\ OthersRun(t)
        /\ active_orders = <<>>
        /\ buy_levels # <<>>
        /\ sell_levels # <<>>

\* ------------------------------------------------------------------------
\* C33: level-count selection in calculate_grid_levels
\* ------------------------------------------------------------------------
\* floor(availableCapital / (minNotional x 1.1))
FloorCapacity(capital) == (capital[1] * min_notional[2] * 10) \div (capital[2] * min_notional[1] * 11)

\* the level count per side the claim gives for capacity maxp
ClaimedCount(maxp, target) == IF maxp >= 2 * target THEN target ELSE maxp \div 2

\* levelIndex of entry j of a side, without its sign
IndexOf(levels, j) == Abs(levels[j].level)

\* one returned side against the n attempts at `prices` with `budget`: at
\* most n levels, each the level of an attempt i in 1..n with levelIndex -i
\* (buy) or +i (sell), closest to the center first, and every attempt
\* missing from it is one the notional test rejected
SideAsAttempted(levels, side, prices, n, budget) ==
    /\ Len(levels) <= n
    /\ \A j \in 1..Len(levels) :
          /\ IndexOf(levels, j) \in 1..n
          /\ levels[j].level = (IF side = "Buy" THEN -1 ELSE 1) * IndexOf(levels, j)
          /\ levels[j] = GridLevel(Instrument, IndexOf(levels, j), side,
                                   prices[IndexOf(levels, j)], budget)
    /\ \A j \in 1..(Len(levels) - 1) : IndexOf(levels, j) < IndexOf(levels, j + 1)
    /\ \A i \in 1..n :
          \/ \E j \in 1..Len(levels) : IndexOf(levels, j) = i
          \/ ~ LevelKept(Instrument, GridLevel(Instrument, i, side, prices[i], budget))

\* the levels stored against n attempts per side; a level price of 0 raises
\* in _calculate_order_qty and nothing is returned
LevelsAsAttempted(buy_prices, sell_prices, n, budget) ==
    IF \E i \in 1..n : buy_prices[i][1] = 0 \/ sell_prices[i][1] = 0
    THEN UNCHANGED <<buy_levels, sell_levels>>
    ELSE /\ SideAsAttempted(buy_levels', "Buy", buy_prices, n, budget)
         /\ SideAsAttempted(sell_levels', "Sell", sell_prices, n, budget)

\* the same with the level prices of center and spacing
CountAsClaimed(center, spacing, n, capital) ==
    LevelsAsAttempted(Tuple([i \in 1..n |-> BuyLevelPrice(Instrument, center, spacing, i)]),
                      Tuple([i \in 1..n |-> SellLevelPrice(Instrument, center, spacing, i)]),
                      n, FDiv(Double(capital), Double(RInt(n + n))))

\* C33: with maxPossibleLevels = floor(availableCapital / (minNotional x
\* 1.1)) >= 2, each side is attempted with targetLevelCount levels when
\* maxPossibleLevels >= 2 x targetLevelCount and with floor(maxPossibleLevels
\* / 2) levels otherwise; the budget per level is availableCapital /
\* (buyCount + sellCount); each returned side has at most that many levels,
\* with levelIndex -i (buy) / +i (sell), closest to the center first
C33_LevelCountSelection ==
    [][(pc["st"] = "sg_balance" /\ LevelsComputed' /\ FloorCapacity(initial_capital) >= 2) =>
          CountAsClaimed(center_price, get_grid_spacing(loc["st"].profile),
                         ClaimedCount(FloorCapacity(initial_capital),
                                      ProfileConfig(loc["st"].profile).target_levels),
                         initial_capital)]_vars

\* a capacity of 5 under a target of 3 per side: two levels per side were
\* attempted and kept, the fifth level discarded
C33_Witness ==
    /\ LevelsComputed
    /\ initial_capital = <<30, 1>>
    /\ ProfileConfig(active_profile).target_levels = 3
    /\ Len(buy_levels) = 2 /\ Len(sell_levels) = 2
    /\ buy_levels[1].level = -1 /\ buy_levels[2].level = -2
    /\ sell_levels[1].level = 1 /\ sell_levels[2].level = 2

\* a capital of 13.2 under a minimum notional of 6: floor(13.2 / 6.6) is 2,
\* one level per side, but int(13.2 / (6 * 1.1)) is 1 in floats and the
\* setup was refused for insufficient capital
C33_FloatWitness ==
    /\ LevelsComputed
    /\ initial_capital = EdgeCapital /\ min_notional = EdgeNotional
    /\ FloorCapacity(initial_capital) = 2
    /\ MaxPossibleLevels(Instrument, initial_capital) = 1
    /\ buy_levels = <<>> /\ sell_levels = <<>>
    /\ pc["st"] = "idle" /\ ~ running

\* a capacity of 7 under a target of 3 per side: three levels per side
C33_TargetWitness ==
    /\ LevelsComputed
    /\ initial_capital = <<40, 1>>
    /\ ProfileConfig(active_profile).target_levels = 3
    /\ Len(buy_levels) = 3 /\ Len(sell_levels) = 3

\* ------------------------------------------------------------------------
\* C34: a failed wallet-balance fetch is never treated as an equity
\* observation
\* ------------------------------------------------------------------------
\* update_equity_tracking has just been resumed with an answer of this kind
UpdateResumed(kind) ==
    last_op'.op = "update_equity_tracking" /\ last_op'.kind = kind

\* C34, as stated: an update_equity_tracking whose get_wallet_balance got an
\* error or empty result from the gateway records no equity, leaves
\* dailyMaxEquity and cannot trigger the kill-switch
C34_FailedFetchIgnored ==
    [][UpdateResumed("error") =>
          /\ UNCHANGED <<total_equity_usdt, daily_max_equity, last_equity_check>>
          /\ UNCHANGED <<kill_switch_active, kill_switch_reason, ks_triggers>>
          /\ \A t \in Tasks : pc'[t] = "ks_cancel" => pc[t] = "ks_cancel"]_vars

\* C34, the part the code keeps: a get_wallet_balance that raised changes
\* nothing of the RiskManager
C34_RaisedFetchIgnored ==
    [][UpdateResumed("raise") =>
          /\ UNCHANGED riskVars
          /\ UNCHANGED ks_triggers
          /\ \A t \in Tasks : pc'[t] = "ks_cancel" => pc[t] = "ks_cancel"]_vars

\* a failed fetch under a daily maximum of 1000: equity 0 was recorded and
\* the kill-switch triggered for a drawdown of 100%
C34_Witness ==
    /\ last_op = [op |-> "update_equity_tracking", kind |-> "error"]
    /\ total_equity_usdt = 0
    /\ daily_max_equity = 1000
    /\ kill_switch_active
    /\ kill_switch_reason = [max |-> 1000, current |-> 0]
    /\ ks_triggers = 1
    /\ AtKsCancel # {}

\* ------------------------------------------------------------------------
\* C35: a failed open-orders fetch is never treated as an empty order book
\* ------------------------------------------------------------------------
\* should_recenter has just returned the 'no active orders' trigger
NoOrdersTrigger == Decided /\ last_op'.reason = "no_active_orders"

\* C35, as stated: should_recenter returns the 'no active orders' trigger
\* only when the exchange reported zero resting orders, so never on a
\* get_open_orders that failed while orders rest on the exchange
C35_EmptyOnlyWhenReported ==
    [][NoOrdersTrigger => last_op'.kind = "ok" /\ ex_orders = {}]_vars

\* C35, the part the code keeps: an answered get_open_orders gives the
\* trigger only for an empty book, and one that raised gives no trigger
C35_AnsweredOrRaised ==
    [][/\ (NoOrdersTrigger /\ last_op'.kind = "ok") => ex_orders = {}
       /\ \A t \in Tasks :
            (pc[t] = "sr_orders" /\ pc'[t] = "cme_positions") =>
                last_op'.op = "should_recenter"]_vars

\* the whole ladder rests on the exchange, get_open_orders failed, and the
\* monitor is on its way to recenter_grid for 'no active orders'
C35_Witness ==
    /\ last_op.op = "should_recenter"
    /\ last_op.kind = "error"
    /\ last_op.reason = "no_active_orders"
    /\ pc["gm"] = "cme_positions"
    /\ loc["gm"].reason = "no_active_orders"
    /\ Cardinality(ex_orders) = Len(buy_levels) + Len(sell_levels)
    /\ ex_orders # {}

\* ------------------------------------------------------------------------
\* C36: a successful recenter clears the condition that caused it
\* ------------------------------------------------------------------------
\* what the next should_recenter decides in this state when the price read
\* is the one the rebuild read (the center) and get_open_orders answers
NextDecision == should_recenter(center_price, OpenOrders("ok"))

\* the whole ladder was placed and every order placed still rests
LadderResting ==
    /\ ex_orders # {}
    /\ {o.id : o \in ex_orders} = DOMAIN active_orders
    /\ Cardinality(ex_orders) = Len(buy_levels) + Len(sell_levels)

\* the grid monitor's recenter_grid has just returned success
JustRecentered ==
    /\ last_op = [op |-> "setup_grid", kind |-> "ok"]
    /\ pc["gm"] = "loop_top"
    /\ last_recenter_time = now

\* C36, as stated: right after a recenter_grid that succeeded, with the
\* price unchanged and all placed orders resting, should_recenter returns
\* no trigger, whatever reason the recenter had
C36_RecenterClearsTrigger ==
    (JustRecentered /\ LadderResting) => ~ NextDecision.trigger

\* C36, the part the code keeps: the rebuilt ladder puts the price inside
\* the band and the rebuild restarts the 48 hours
C36_BandAndTimeCleared ==
    (JustRecentered /\ LadderResting) =>
        NextDecision.reason \notin
            {"no_active_orders", "deviation_high", "deviation_low", "time_based"}

\* the monitor sleeps after a successful recenter with the ladder resting,
\* and the samples of the last day are still above the center
C36_Witness ==
    /\ JustRecentered
    /\ LadderResting
    /\ NextDecision.reason = "one_side_above"

\* the same with the 6.9% range of the last hour still in the history
C36_PumpDumpWitness ==
    /\ JustRecentered
    /\ LadderResting
    /\ NextDecision.reason = "pump_dump"

\* ------------------------------------------------------------------------
\* C37: calculate_grid_levels never over-commits capital
\* ------------------------------------------------------------------------
RECURSIVE SumNotional(_)
\* the sum of quantity x price over a side
SumNotional(levels) ==
    IF levels = <<>> THEN RInt(0)
    ELSE RAdd(RMul(Head(levels).qty, Head(levels).price), SumNotional(Tail(levels)))

\* availableCapital / (buyCount + sellCount) of the levels just computed
BudgetPerLevel ==
    LET n == LevelsPerSide(MaxPossibleLevels(Instrument, initial_capital),
                           ProfileConfig(active_profile).target_levels)
    IN  RDiv(initial_capital, RInt(n + n))

\* C37, as stated: the notional of all returned levels together is at most
\* availableCapital, and each level's notional at most the budget per level
C37_NeverOverCommits ==
    LevelsComputed =>
        /\ RLe(RAdd(SumNotional(buy_levels), SumNotional(sell_levels)), initial_capital)
        /\ \A l \in AllLevels : RLe(RMul(l.qty, l.price), BudgetPerLevel)

\* C37, the part the code keeps: the quantity is a multiple of the quantity
\* step and the notional field is quantity x price
C37_QuantityOnStep ==
    LevelsComputed =>
        \A l \in AllLevels :
            /\ MultipleOf(l.qty, qty_step)
            /\ l.notional = Notional(l.qty, l.price)

\* capital 11, one level per side at a budget of 5.5: the minimum order
\* quantity 0.1 makes the buy level at 99 cost 9.9, and the two levels
\* together more than the capital
C37_Witness ==
    /\ LevelsComputed
    /\ initial_capital = <<11, 1>>
    /\ Len(buy_levels) = 1 /\ Len(sell_levels) = 1
    /\ buy_levels[1].qty = min_order_qty
    /\ buy_levels[1].notional = Notional(<<1, 10>>, <<99, 1>>)
    /\ RLt(BudgetPerLevel, RMul(buy_levels[1].qty, buy_levels[1].price))
    /\ RLt(initial_capital, RAdd(SumNotional(buy_levels), SumNotional(sell_levels)))

\* ------------------------------------------------------------------------
\* Two POST /api/start requests: the second is handled while the first one's
\* start_trading is still in setup_grid or after the kill-switch stopped the
\* bot; with the monitors of both and the kill-switch endpoint
\* ------------------------------------------------------------------------
Starters == {"st", "st2"}

RiskLoops == {"rm", "rm2"}

NextStart ==
    \/ start_bot("st")
    \/ pc["st"] # "idle" /\ start_bot("st2")
    \/ \E t \in Starters : start_trading(t)
    \/ \E t \in Starters, price \in BotPrices : sg_price(t, price)
    \/ \E t \in Starters : sg_balance(t, "ok")
    \/ \E t \in Starters, kind \in BotCancelKinds : sg_cancel(t, kind)
    \/ \E t \in Starters : sg_sleep(t)
    \/ \E t \in Starters, kind \in BotPlaceKinds : sg_place(t, kind)
    \/ \E t \in Starters : sg_pause(t)
    \/ \E t \in Starters : sg_save(t, "ok")
    \/ \E t \in {"gm", "gm2"} : gm_top(t)
    \/ \E t \in {"fm", "fm2"} : ~ running /\ fm_top(t)
    \/ \E t \in {"ss", "ss2"} : ~ running /\ ss_top(t)
    \/ \E t \in RiskLoops : rm_top(t)
    \/ \E t \in RiskLoops, w \in BotWallets : update_equity_tracking(t, w)
    \/ \E t \in RiskLoops, kind \in BotCancelKinds : ks_cancel(t, kind)
    \/ \E t \in RiskLoops, kind \in BotStoreKinds : ks_log(t, kind)
    \/ \E t \in RiskLoops, p \in BotPositions : cme_positions(t, p)
    \/ \E t \in RiskLoops, w \in BotWallets : cme_wallet(t, w)
    \/ \E t \in RiskLoops : cme_log(t)
    \/ \E t \in RiskLoops, kind \in {"ok", "raise"} : stop_cancel(t, kind)
    \/ deactivate_kill_switch

SpecStart == InitBoot /\ [][NextStart]_vars

\* C38: however start requests, kill-switch stops and deactivations follow one
\* another, no two grid monitors and no two risk monitors are alive at once
LiveLoop(l) == pc[l] # "off"

C38_OneMonitorEach ==
    /\ ~ (LiveLoop("gm") /\ LiveLoop("gm2"))
    /\ ~ (LiveLoop("rm") /\ LiveLoop("rm2"))

\* both start requests were accepted while `running` was false, both setups
\* succeeded, and two grid monitors and two risk monitors are alive
C38_Witness ==
    /\ running
    /\ pc["st"] = "gather" /\ pc["st2"] = "gather"
    /\ LiveLoop("gm") /\ LiveLoop("gm2")
    /\ LiveLoop("rm") /\ LiveLoop("rm2")

\* C39: once the kill-switch stop has returned from its cancel-all, `running`
\* is false, every loop has exited and no setup is in flight, no order rests
\* on the exchange (every cancel-all of SpecGate succeeds)
TradingStopped ==
    /\ kill_switch_active
    /\ ~ running
    /\ \A l \in AllLoops : pc[l] = "off"
    /\ pc["st"] = "idle" /\ pc["cp"] = "idle"

C39_NothingRestsAfterStop == TradingStopped => ex_orders = {}

\* the risk monitor stopped the bot while the grid monitor was rebuilding the
\* ladder; no profile change took part; a full ladder rests after all exited
C39_Witness ==
    /\ TradingStopped
    /\ active_profile = "Normal"
    /\ Cardinality(ex_orders) = Len(buy_levels) + Len(sell_levels)
    /\ ex_orders # {}

\* C40: the exchange holds at most one resting order per level of the current
\* grid
CurrentLevels ==
    {buy_levels[i] : i \in DOMAIN buy_levels} \cup {sell_levels[i] : i \in DOMAIN sell_levels}

C40_OneLadder ==
    /\ Cardinality(ex_orders) <= Len(buy_levels) + Len(sell_levels)
    /\ \A level \in CurrentLevels : Cardinality(RestingAt(level)) <= 1

\* a recenter of change_profile and one of the grid monitor both returned
\* successfully and two orders rest at every level of the current grid
C40_Witness ==
    /\ running
    /\ pc["cp"] = "idle" /\ pc["gm"] = "loop_top" /\ pc["st"] = "gather"
    /\ CurrentLevels # {}
    /\ \A level \in CurrentLevels : Cardinality(RestingAt(level)) = 2

====
